---- MODULE Spec2Model ----
(***************************************************************************)
(* Model of the spectral change classifiers of the land-cover change       *)
(* detection backend:                                                      *)
(*   - ChangeClassifier.classify / classify_from_dict (period mode),       *)
(*     backend/app/services/change_classifier.py                           *)
(*   - classify_change_spectral (pixel-pair mode),                         *)
(*     backend/app/core/detection/change_detector.py                       *)
(* and of the raster pipeline around them:                                 *)
(*   - load_sentinel2_bands, calculate_ndvi / ndbi / ndwi / bsi and        *)
(*     detect_changes, backend/app/core/detection/change_detector.py       *)
(*   - process_analysis_task, backend/app/tasks/analysis_task.py           *)
(* and of the service layer that runs them:                                *)
(*   - process_gee_analysis, backend/app/tasks/gee_task.py                 *)
(*   - compare_images, get_analysis_status, get_analysis_result,           *)
(*     get_changes, create_analysis, get_analysis_tiles and                *)
(*     analyze_satellite_images, backend/app/api/v1/endpoints              *)
(*                                                                         *)
(* Numbers.  Every index value, delta, threshold and confidence is a       *)
(* fixed-point integer counting units of 1/20000 (ONE = 1.0, MILLI =       *)
(* 0.001).  Inputs are drawn on the 0.0001 grid (even numbers), so the     *)
(* products by 0.5 that the code forms are exact.  The products by 0.7 and  *)
(* 0.8 of detect_changes are formed on ten times the magnitude, with the   *)
(* integers 7 and 8.  round(x, 3) is modelled as rounding                  *)
(* to the nearest multiple of MILLI, ties to the even multiple (Python's   *)
(* rule for a value that is exactly half way).                             *)
(***************************************************************************)
EXTENDS Integers, Sequences, FiniteSets, TLC

VARIABLES
    mode,        \* "period", "pixel", "index", "detect", "job", "api", "gee" or
                 \* "satellite": what the behaviour exercises
    deltas,      \* period mode: the dict of deltas handed to the classifier
    results,     \* period mode: outcomes of the calls made so far (oldest first)
    pixel,       \* pixel-pair mode: arguments of one region's call
    pixelOut,    \* pixel-pair mode: outcome of the first call, <<>> before it
    pixel2,      \* pixel-pair mode: arguments of another region's call
    pixelOut2,   \* pixel-pair mode: outcome of the second call, <<>> before it
    sample,      \* index mode: the band values of one pixel
    index,       \* index mode: the four index values, <<>> before the call
    scene,       \* detect and job mode: the before and the after raster
    det,         \* outcome of the (latest) call of detect_changes, <<>> before it
    det2,        \* detect mode: outcome of the call with a higher threshold
    analysis,    \* job and api mode: the Analysis row, <<>> before it is created
    task,        \* job and api mode: where the Celery task stands, its retry
                 \* count, the number of times its body has started, and
                 \* whether the database may fail in this behaviour
    gee,         \* gee mode: the GeeAnalysis row, <<>> before it is created
    geeTask,     \* gee mode: where process_gee_analysis (or the background
                 \* coroutine) stands, its retry count and its number of runs
    response,    \* the answers given so far: to the one GET request of api and
                 \* gee mode, to the POST requests of satellite mode
    analyses_db, \* satellite mode: the module-level dict analyses_db
    clock        \* satellite mode: time.time() * 1000, in whole milliseconds

classifierVars == <<deltas, results, pixel, pixelOut, pixel2, pixelOut2>>

detectorVars == <<sample, index, scene, det, det2, analysis, task>>

serviceVars == <<gee, geeTask, response, analyses_db, clock>>

vars == <<mode, classifierVars, detectorVars, serviceVars>>

-----------------------------------------------------------------------------
(* Fixed-point scale and bounds *)

\* 1.0, the clamp of every confidence: min(..., 1.0)
ONE == 20000

\* 0.001, the quantum of round(confidence, 3)
MILLI == 20

\* how many grid points (of 0.0001) on each side of a threshold are sampled
Spread == 1

\* how many calls are made on the classifier singleton in one behaviour
MaxCalls == 2

\* Optional[float]: None is the empty sequence, a value v is <<v>>
None == <<>>
Some(v) == <<v>>
IsNone(x) == Len(x) = 0
Val(x) == x[1]

Abs(x) == IF x < 0 THEN -x ELSE x
Min(a, b) == IF a <= b THEN a ELSE b
Half(x) == x \div 2

\* the grid points around t: t - Spread*0.0001 .. t + Spread*0.0001
Near(t) == {t + 2 * d : d \in -Spread..Spread}

-----------------------------------------------------------------------------
(* change_classifier.py *)

ChangeType ==
    {"NOVA_CONSTRUCAO", "ENTULHO", "QUEIMADA", "DESMATAMENTO",
     "REFLORESTAMENTO", "EXPANSAO_URBANA", "SEM_MUDANCA"}

THRESHOLDS ==
    [ndvi_decrease_strong   |-> -4000,   \* -0.20
     ndvi_decrease_moderate |-> -3000,   \* -0.15
     ndvi_increase          |-> 3000,    \*  0.15
     ndbi_increase          |-> 2000,    \*  0.10
     bsi_increase           |-> 3000,    \*  0.15
     nbr_decrease           |-> -5000]   \* -0.25

\* (texts abridged and written without accents)
DESCRIPTIONS ==
    [NOVA_CONSTRUCAO |-> "Area de vegetacao foi removida e substituida por construcao.",
     ENTULHO         |-> "Solo exposto detectado.",
     QUEIMADA        |-> "Padrao espectral consistente com area queimada recentemente.",
     DESMATAMENTO    |-> "Reducao significativa de cobertura vegetal sem substituicao por construcao.",
     REFLORESTAMENTO |-> "Aumento de cobertura vegetal detectado.",
     EXPANSAO_URBANA |-> "Expansao de area urbana sobre zona anteriormente nao urbanizada.",
     SEM_MUDANCA     |-> "Nao foram detectadas alteracoes significativas no periodo analisado."]

ALERT_LEVELS ==
    [NOVA_CONSTRUCAO |-> "warning",
     ENTULHO         |-> "critical",
     QUEIMADA        |-> "critical",
     DESMATAMENTO    |-> "critical",
     REFLORESTAMENTO |-> "success",
     EXPANSAO_URBANA |-> "warning",
     SEM_MUDANCA     |-> "info"]

\* the confidence stored as computed, the rounding left out
round3_unrounded(x) == x

\* round(x, 3): the nearest multiple of MILLI.  An exact tie goes to the even
\* multiple, as Python rounds a float that is exactly half way; the sampled
\* inputs produce no tie, since a decimal tie is in general not a float.
round3(x) ==
    LET q == x \div MILLI
        r == x % MILLI
    IN  IF 2 * r < MILLI THEN q * MILLI
        ELSE IF 2 * r > MILLI THEN (q + 1) * MILLI
        ELSE IF q % 2 = 0 THEN q * MILLI ELSE (q + 1) * MILLI

\* _result with "EXPANSAO_URBANA" left out of ALERT_LEVELS: the lookup raises
_result_missing_level(change_type, confidence) ==
    IF change_type \in DOMAIN DESCRIPTIONS /\ change_type \in DOMAIN ALERT_LEVELS
       /\ change_type # "EXPANSAO_URBANA"
    THEN [kind        |-> "return",
          change_type |-> change_type,
          confidence  |-> round3(confidence),
          description |-> DESCRIPTIONS[change_type],
          alert_level |-> ALERT_LEVELS[change_type]]
    ELSE [kind        |-> "raise",
          change_type |-> change_type,
          confidence  |-> 0,
          description |-> "KeyError",
          alert_level |-> "KeyError"]

\* ChangeClassifier._result: builds the ClassificationResult; a change type
\* missing from DESCRIPTIONS or ALERT_LEVELS makes the dict lookup raise KeyError
_result(change_type, confidence) ==
    IF change_type \in DOMAIN DESCRIPTIONS /\ change_type \in DOMAIN ALERT_LEVELS
    THEN [kind        |-> "return",
          change_type |-> change_type,
          confidence  |-> round3(confidence),
          description |-> DESCRIPTIONS[change_type],
          alert_level |-> ALERT_LEVELS[change_type]]
    ELSE [kind        |-> "raise",
          change_type |-> change_type,
          confidence  |-> 0,
          description |-> "KeyError",
          alert_level |-> "KeyError"]

\* rule 1 with the NBR threshold of the other rule variant (-0.30)
IsQueimada_nbr30(delta_ndvi, delta_nbr) ==
    delta_nbr < -6000 /\ delta_ndvi < THRESHOLDS.ndvi_decrease_moderate

\* rule 2 comparing the NDBI delta with the BSI threshold
IsNovaConstrucao_bsiThreshold(delta_ndvi, delta_ndbi) ==
    delta_ndvi < THRESHOLDS.ndvi_decrease_moderate /\ delta_ndbi > THRESHOLDS.bsi_increase

\* rule 3 asking for the strong NDVI drop
IsEntulho_strongNdvi(delta_ndvi, delta_ndbi, delta_bsi) ==
    /\ delta_ndvi < THRESHOLDS.ndvi_decrease_strong /\ delta_bsi > THRESHOLDS.bsi_increase
    /\ delta_ndbi < THRESHOLDS.ndbi_increase

\* rule 4 asking for the whole NDBI threshold instead of half of it
IsExpansaoUrbana_fullNdbi(delta_ndvi, delta_ndbi, delta_bsi) ==
    /\ delta_ndvi < THRESHOLDS.ndvi_decrease_moderate
    /\ delta_ndbi > THRESHOLDS.ndbi_increase
    /\ delta_bsi > Half(THRESHOLDS.bsi_increase)

\* rule 5 asking only for the moderate NDVI drop
IsDesmatamento_moderate(delta_ndvi) == delta_ndvi < THRESHOLDS.ndvi_decrease_moderate

\* rule 6 asking for a gain as large as the strong drop (0.20)
IsReflorestamento_strong(delta_ndvi) == delta_ndvi > -THRESHOLDS.ndvi_decrease_strong

\* rule 6 taking any NDVI gain
IsReflorestamento_anyGain(delta_ndvi) == delta_ndvi > 0

\* rule 1 without its NDVI test
IsQueimada_nbrOnly(delta_ndvi, delta_nbr) == delta_nbr < THRESHOLDS.nbr_decrease

\* the condition of each rule of ChangeClassifier.classify, in source order
IsQueimada(delta_ndvi, delta_nbr) ==
    delta_nbr < THRESHOLDS.nbr_decrease /\ delta_ndvi < THRESHOLDS.ndvi_decrease_moderate

IsNovaConstrucao(delta_ndvi, delta_ndbi) ==
    delta_ndvi < THRESHOLDS.ndvi_decrease_moderate /\ delta_ndbi > THRESHOLDS.ndbi_increase

IsEntulho(delta_ndvi, delta_ndbi, delta_bsi) ==
    /\ delta_ndvi < THRESHOLDS.ndvi_decrease_moderate /\ delta_bsi > THRESHOLDS.bsi_increase
    /\ delta_ndbi < THRESHOLDS.ndbi_increase

IsExpansaoUrbana(delta_ndvi, delta_ndbi, delta_bsi) ==
    /\ delta_ndvi < THRESHOLDS.ndvi_decrease_moderate
    /\ delta_ndbi > Half(THRESHOLDS.ndbi_increase)
    /\ delta_bsi > Half(THRESHOLDS.bsi_increase)

IsDesmatamento(delta_ndvi) == delta_ndvi < THRESHOLDS.ndvi_decrease_strong

IsReflorestamento(delta_ndvi) == delta_ndvi > THRESHOLDS.ndvi_increase

\* ChangeClassifier.classify: the ordered rule chain, first match wins
classify(delta_ndvi, delta_ndbi, delta_bsi, delta_nbr) ==
    IF IsQueimada(delta_ndvi, delta_nbr)
    THEN _result("QUEIMADA",
                 Min(Abs(delta_nbr) + Half(Abs(delta_ndvi)), ONE))
    ELSE IF IsNovaConstrucao(delta_ndvi, delta_ndbi)
    THEN _result("NOVA_CONSTRUCAO", Min(Abs(delta_ndvi) + delta_ndbi, ONE))
    ELSE IF IsEntulho(delta_ndvi, delta_ndbi, delta_bsi)
    THEN _result("ENTULHO", Min(Abs(delta_ndvi) + delta_bsi, ONE))
    ELSE IF IsExpansaoUrbana(delta_ndvi, delta_ndbi, delta_bsi)
    THEN _result("EXPANSAO_URBANA",
                 Min(Half(Abs(delta_ndvi)) + Half(delta_ndbi) + Half(delta_bsi), ONE))
    ELSE IF IsDesmatamento(delta_ndvi)
    THEN _result("DESMATAMENTO", Min(Abs(delta_ndvi), ONE))
    ELSE IF IsReflorestamento(delta_ndvi)
    THEN _result("REFLORESTAMENTO", Min(delta_ndvi, ONE))
    ELSE _result("SEM_MUDANCA", 0)

\* dict.get(key, 0.0)
Get(d, key) == IF key \in DOMAIN d THEN d[key] ELSE 0

\* ChangeClassifier.classify_from_dict
classify_from_dict(d) ==
    classify(Get(d, "ndvi"), Get(d, "ndbi"), Get(d, "bsi"), Get(d, "nbr"))

-----------------------------------------------------------------------------
(* Inputs of the period-mode calls *)

Keys == {"ndvi", "ndbi", "bsi", "nbr"}

\* delta values far outside every threshold band
Extremes == {-2 * ONE, 0, 2 * ONE}

NdviSamples ==
    Near(THRESHOLDS.ndvi_decrease_strong) \cup Near(THRESHOLDS.ndvi_decrease_moderate)
    \cup Near(THRESHOLDS.ndvi_increase) \cup Extremes
    \cup {-5000, 5000, 400, -4012, -1000, 1000}

NdbiSamples ==
    Near(THRESHOLDS.ndbi_increase) \cup Near(Half(THRESHOLDS.ndbi_increase))
    \cup Extremes \cup {3000, 400, -1000, 200, 18000}

BsiSamples ==
    Near(THRESHOLDS.bsi_increase) \cup Near(Half(THRESHOLDS.bsi_increase))
    \cup Extremes \cup {2000, 1000, -2000, 200}

NbrSamples ==
    Near(THRESHOLDS.nbr_decrease) \cup Extremes
    \cup {-6000, -1000, -2000, 1000, 200}

Samples(key) ==
    CASE key = "ndvi" -> NdviSamples
      [] key = "ndbi" -> NdbiSamples
      [] key = "bsi"  -> BsiSamples
      [] key = "nbr"  -> NbrSamples

Restrict(f, ks) == [k \in ks |-> f[k]]

SamplesIn(key, ks) == IF key \in ks THEN Samples(key) ELSE {0}

\* the dict over the keys ks that holds a, b, c, d for the keys it has
MkDict(ks, a, b, c, d) ==
    Restrict([ndvi |-> a, ndbi |-> b, bsi |-> c, nbr |-> d], ks)

-----------------------------------------------------------------------------
(* change_detector.py: classify_change_spectral *)

NDVI_LOSS_THRESHOLD == -3000

NDVI_GAIN_THRESHOLD == 3000

NDBI_GAIN_THRESHOLD == 2000

NDWI_GAIN_THRESHOLD == 4000

\* a delta formed from the "after" value alone
DeltaNdbi_afterOnly(ndbi_before, ndbi_after) ==
    IF ~IsNone(ndbi_before) /\ ~IsNone(ndbi_after)
    THEN Some(Val(ndbi_after))
    ELSE None

\* delta_ndbi: the difference when both NDBI means exist, else None
DeltaNdbi(ndbi_before, ndbi_after) ==
    IF ~IsNone(ndbi_before) /\ ~IsNone(ndbi_after)
    THEN Some(Val(ndbi_after) - Val(ndbi_before))
    ELSE None

\* the (change_type, confidence) tuple the function returns; the confidence is
\* returned as computed, without rounding
Pair(change_type, confidence) ==
    [change_type |-> change_type, confidence |-> confidence]

\* the water-decrease confidence with abs() left out
WaterDecreaseConfidence_noAbs(delta_ndwi) == Min(delta_ndwi * 2, ONE)

\* confidence of a water decrease: min(abs(delta_ndwi) * 2, 1.0)
WaterDecreaseConfidence(delta_ndwi) == Min(Abs(delta_ndwi) * 2, ONE)

\* the soil-movement test with the NDBI clause left out
IsSoilMovement_ndviOnly(delta_ndvi, delta_ndbi) == Abs(delta_ndvi) > 2000

\* moderate change: abs(delta_ndvi) > 0.1, or NDBI is available and
\* abs(delta_ndbi) > 0.05
IsSoilMovement(delta_ndvi, delta_ndbi) ==
    \/ Abs(delta_ndvi) > 2000
    \/ (~IsNone(delta_ndbi) /\ Abs(Val(delta_ndbi)) > 1000)

classify_change_spectral(ndvi_before, ndvi_after, ndbi_before, ndbi_after, ndwi_before, ndwi_after) ==
    LET delta_ndvi == ndvi_after - ndvi_before
        delta_ndwi == ndwi_after - ndwi_before
        delta_ndbi == DeltaNdbi(ndbi_before, ndbi_after)
    IN
    IF delta_ndvi < NDVI_LOSS_THRESHOLD /\ ndvi_before > 6000
    THEN \* was vegetation
         LET confidence == Min(Abs(delta_ndvi) * 2, ONE) IN
         IF ~IsNone(delta_ndbi) /\ Val(delta_ndbi) > NDBI_GAIN_THRESHOLD
         THEN Pair("urban_expansion", confidence)
         ELSE IF ndvi_after < 2000
         THEN Pair("deforestation", confidence)
         ELSE Pair("vegetation_loss", confidence)
    ELSE IF delta_ndvi > NDVI_GAIN_THRESHOLD
    THEN Pair("vegetation_growth", Min(delta_ndvi * 2, ONE))
    ELSE IF ~IsNone(delta_ndbi) /\ Val(delta_ndbi) > NDBI_GAIN_THRESHOLD
    THEN LET confidence == Min(Val(delta_ndbi) * 3, ONE) IN
         IF ndvi_after < 4000
         THEN Pair("construction", confidence)
         ELSE Pair("urban_expansion", confidence)
    ELSE IF delta_ndwi > NDWI_GAIN_THRESHOLD
    THEN Pair("water_increase", Min(delta_ndwi * 2, ONE))
    ELSE IF delta_ndwi < -NDWI_GAIN_THRESHOLD
    THEN Pair("water_decrease", WaterDecreaseConfidence(delta_ndwi))
    ELSE IF IsSoilMovement(delta_ndvi, delta_ndbi)
    THEN Pair("soil_movement", 8000)
    ELSE Pair("unknown", 6000)

-----------------------------------------------------------------------------
(* Inputs of the pixel-pair calls: region means of index planes, each in     *)
(* [-1, 1] as calculate_ndvi / calculate_ndbi / calculate_ndwi clip them     *)

InRange(v) == -ONE <= v /\ v <= ONE

NdviBeforeSamples == {-ONE, 0, 6000, 6002, 10000, ONE}

DeltaNdviSamples ==
    Near(NDVI_LOSS_THRESHOLD) \cup Near(NDVI_GAIN_THRESHOLD)
    \cup Near(-2000) \cup Near(2000)
    \cup {0, -5024, -8000, -8002, -12000, 12000, -2 * ONE, 2 * ONE}

DeltaNdbiSamples ==
    Near(NDBI_GAIN_THRESHOLD) \cup Near(1000) \cup Near(-1000)
    \cup {0, 2010, 8000}

DeltaNdwiSamples ==
    Near(NDWI_GAIN_THRESHOLD) \cup Near(-NDWI_GAIN_THRESHOLD)
    \cup {0, 14000, -14000}

\* (ndbi_before, ndbi_after) of the first call: NDBI absent in both scenes, in
\* one of them, or present in both
NdbiPairs ==
    {<<None, None>>, <<None, Some(0)>>, <<Some(0), None>>}
    \cup {<<Some(0), Some(d)>> : d \in DeltaNdbiSamples}

\* by how much another call's NDBI and NDWI levels differ from the first one's
LevelShifts == {0, -6000}

\* the NDBI pairs at level shift s that have the same delta_ndbi as <<b, a>>
SameDeltaNdbi(b, a, s) ==
    IF IsNone(b) \/ IsNone(a)
    THEN {<<None, None>>, <<None, Some(s)>>, <<Some(s), None>>}
    ELSE {<<Some(Val(b) + s), Some(Val(a) + s)>>}

MkPixel(nb, na, bb, ba, wb, wa) ==
    [ndvi_before |-> nb, ndvi_after |-> na,
     ndbi_before |-> bb, ndbi_after |-> ba,
     ndwi_before |-> wb, ndwi_after |-> wa]

Spectral(px) ==
    classify_change_spectral(px.ndvi_before, px.ndvi_after,
                             px.ndbi_before, px.ndbi_after,
                             px.ndwi_before, px.ndwi_after)

-----------------------------------------------------------------------------
(* change_detector.py: the raster pipeline of detect_changes                 *)
(*                                                                           *)
(* Rasters.  A raster file is a record: readable (rasterio can open and read *)
(* it), count (its number of bands), geo (<<>> when it has no CRS, else the  *)
(* affine transform) and cols, one spectrum name per column.  Every row of a *)
(* raster carries the same values, so a raster of h rows is h copies of      *)
(* cols; both rasters of a scene have the scene's h and w (cv2.resize, which *)
(* the code applies to rasters of different size, is not modelled).          *)
(* Pixel positions are <<x, y>> with x in 0..w-1 and y in 0..h-1, as OpenCV  *)
(* reports them.  Band values are small even integers, chosen so that every  *)
(* index of the scenes is a dyadic fraction, exact in float32 and on the     *)
(* fixed-point grid.  Areas count half pixels: cv2.contourArea returns       *)
(* multiples of 0.5.                                                         *)

Max(a, b) == IF a >= b THEN a ELSE b

\* a / b towards zero, on integers
Quot(a, b) == IF (a < 0) = (b < 0) THEN Abs(a) \div Abs(b) ELSE -(Abs(a) \div Abs(b))

\* the band values <<B4, B3, B2, B8, B11, B12>> of the spectra the scenes use:
\* flat has every index 0; red lowers NDVI by 0.5, green raises NDWI by 0.5,
\* swir raises NDBI by 0.5; dark is an all-zero pixel
Palette ==
    [flat  |-> <<2, 2, 2, 2, 2, 2>>,
     red   |-> <<6, 2, 2, 2, 2, 2>>,
     green |-> <<2, 6, 2, 2, 2, 2>>,
     swir  |-> <<2, 2, 2, 2, 6, 2>>,
     dark  |-> <<0, 0, 0, 0, 0, 0>>]

\* np.clip with the lower and upper bound left out
Clip_off(v) == v

\* np.clip(v, -1, 1)
Clip(v) == IF v < -ONE THEN -ONE ELSE IF v > ONE THEN ONE ELSE v

\* (a - b) / (a + b) under np.errstate(ignore), nan_to_num(nan=0, posinf=0,
\* neginf=0) and np.clip(-1, 1): a zero denominator gives nan or +-inf, hence 0
NormalizedDifference(a, b) == IF a + b = 0 THEN 0 ELSE Clip(Quot((a - b) * ONE, a + b))

calculate_ndvi(nir, red) == NormalizedDifference(nir, red)

calculate_ndbi(swir, nir) == NormalizedDifference(swir, nir)

calculate_ndwi(green, nir) == NormalizedDifference(green, nir)

calculate_bsi(blue, red, nir, swir) == NormalizedDifference(swir + red, nir + blue)

\* the bands dict when a file of any count is read like a file of four bands
BandsOf_fourBands(count, s) ==
    [red |-> s[1], green |-> s[2], blue |-> s[3], nir |-> s[4],
     swir1 |-> IF count >= 5 THEN Some(s[5]) ELSE None]

\* the bands dict of one pixel: swir1 is None when the key is absent
BandsOf(count, s) ==
    IF count >= 4
    THEN [red |-> s[1], green |-> s[2], blue |-> s[3], nir |-> s[4],
          swir1 |-> IF count >= 5 THEN Some(s[5]) ELSE None]
    ELSE IF count = 3
    THEN [red |-> s[1], green |-> s[2], blue |-> s[3], nir |-> (s[2] * 3) \div 2,
          swir1 |-> None]
    ELSE [red |-> s[1], green |-> s[1], blue |-> s[1], nir |-> s[1], swir1 |-> None]

\* the loader taking a file without bands for a single-band file
load_sentinel2_bands_ignoreCount(file) ==
    IF ~file.readable
    THEN [bands |-> <<>>, geo_transformer |-> None]
    ELSE [bands |-> [c \in DOMAIN file.cols |-> BandsOf(file.count, Palette[file.cols[c]])],
          geo_transformer |-> file.geo]

\* load_sentinel2_bands: ({}, None) is the record with bands = <<>>; a file
\* that cannot be opened, or has no band to read, raises inside the try
load_sentinel2_bands(file) ==
    IF ~file.readable \/ file.count = 0
    THEN [bands |-> <<>>, geo_transformer |-> None]
    ELSE [bands |-> [c \in DOMAIN file.cols |-> BandsOf(file.count, Palette[file.cols[c]])],
          geo_transformer |-> file.geo]

\* 'swir1' in bands
HasSwir1(bands) == ~IsNone(bands[1].swir1)

\* GeoTransformer.pixel_to_geo: rasterio.transform.xy gives the centre of
\* pixel (x, y) under the north-up transform with pixel size a and origin (c, f)
pixel_to_geo(t, x, y) == <<t.c + t.a * x + Half(t.a), t.f - t.a * y - Half(t.a)>>

pixels_to_geo_polygon(t, pixel_coords) ==
    [i \in DOMAIN pixel_coords |-> pixel_to_geo(t, pixel_coords[i][1], pixel_coords[i][2])]

\* the pixel positions of an h x w image
Pixels(h, w) == (0..(w - 1)) \X (0..(h - 1))

\* cv2.getStructuringElement(cv2.MORPH_ELLIPSE, (3, 3)): the 3x3 cross
kernel == {<<0, 0>>, <<-1, 0>>, <<1, 0>>, <<0, -1>>, <<0, 1>>}

Shift(p, k) == <<p[1] + k[1], p[2] + k[2]>>

\* cv2.erode with the default border value: positions outside the image count
\* as set
Erode(S, h, w) ==
    {p \in Pixels(h, w) :
        \A k \in kernel : Shift(p, k) \notin Pixels(h, w) \/ Shift(p, k) \in S}

\* cv2.dilate with the default border value: positions outside the image
\* count as unset
Dilate(S, h, w) == {p \in Pixels(h, w) : \E k \in kernel : Shift(p, k) \in S}

\* cv2.morphologyEx(mask, cv2.MORPH_OPEN, kernel)
MorphOpen(S, h, w) == Dilate(Erode(S, h, w), h, w)

\* cv2.morphologyEx(mask, cv2.MORPH_CLOSE, kernel)
MorphClose(S, h, w) == Erode(Dilate(S, h, w), h, w)

\* the two morphologyEx calls of detect_changes
CleanMask(S, h, w) == MorphClose(MorphOpen(S, h, w), h, w)

Adjacent8(p, q) == p # q /\ Abs(p[1] - q[1]) <= 1 /\ Abs(p[2] - q[2]) <= 1

RECURSIVE Flood(_, _)
\* the 8-connected component of S that holds the pixels of seed
Flood(seed, S) ==
    LET more == {q \in S \ seed : \E p \in seed : Adjacent8(p, q)}
    IN  IF more = {} THEN seed ELSE Flood(seed \cup more, S)

\* the first pixel of S in raster scan order
FirstPixel(S) == CHOOSE p \in S : \A q \in S : p[2] < q[2] \/ (p[2] = q[2] /\ p[1] <= q[1])

RECURSIVE findContours(_)
\* cv2.findContours(mask, RETR_EXTERNAL, CHAIN_APPROX_SIMPLE): one contour
\* per 8-connected component, given here by the component's pixels (no
\* component of the scenes lies inside a hole of another one)
findContours(S) ==
    IF S = {} THEN <<>>
    ELSE LET comp == Flood({FirstPixel(S)}, S)
         IN  <<comp>> \o findContours(S \ comp)

\* the pixels of the unit cell whose top-left pixel is p
Cell(p) == {p, <<p[1] + 1, p[2]>>, <<p[1], p[2] + 1>>, <<p[1] + 1, p[2] + 1>>}

\* cv2.contourArea, in half pixels: the polygon through the centres of the
\* border pixels covers the cells with four pixels of the component and half
\* of each cell with three
contourArea(comp) ==
      2 * Cardinality({p \in comp : Cardinality(Cell(p) \cap comp) = 4})
    + Cardinality({p \in UNION {Cell(<<q[1] - 1, q[2] - 1>>) : q \in comp} :
                      Cardinality(Cell(p) \cap comp) = 3})

RECURSIVE SumOf(_)
\* the sum of the values of a function with a finite domain
SumOf(f) ==
    IF DOMAIN f = {} THEN 0
    ELSE LET x == CHOOSE x \in DOMAIN f : TRUE
         IN  f[x] + SumOf([y \in DOMAIN f \ {x} |-> f[y]])

\* cv2.moments of the contour polygon, m00 in half pixels and m10, m01 in
\* twelfths: a full cell weighs 2 at its centre, a half cell 1 at the mean of
\* its three pixels
moments(comp) ==
    LET cells == {p \in UNION {Cell(<<q[1] - 1, q[2] - 1>>) : q \in comp} :
                     Cardinality(Cell(p) \cap comp) >= 3}
        weight(p) == IF Cardinality(Cell(p) \cap comp) = 4 THEN 2 ELSE 1
        first(p, i) ==
            IF Cardinality(Cell(p) \cap comp) = 4 THEN 6 * p[i] + 3
            ELSE 2 * SumOf([q \in Cell(p) \cap comp |-> q[i]])
    IN  [m00 |-> contourArea(comp),
         m10 |-> SumOf([p \in cells |-> weight(p) * first(p, 1)]),
         m01 |-> SumOf([p \in cells |-> weight(p) * first(p, 2)])]

\* the corners of the bounding box of a component: x0, x1, y0, y1
Box(comp) ==
    [x0 |-> CHOOSE x \in {p[1] : p \in comp} : \A p \in comp : x <= p[1],
     x1 |-> CHOOSE x \in {p[1] : p \in comp} : \A p \in comp : x >= p[1],
     y0 |-> CHOOSE y \in {p[2] : p \in comp} : \A p \in comp : y <= p[2],
     y1 |-> CHOOSE y \in {p[2] : p \in comp} : \A p \in comp : y >= p[2]]

\* the components of the scenes are full rectangles (every row of a raster is
\* the same), so a contour is the four corners of its box
IsRectangle(comp) ==
    LET b == Box(comp) IN comp = (b.x0 .. b.x1) \X (b.y0 .. b.y1)

\* cv2.approxPolyDP(contour, 0.02 * cv2.arcLength(contour, True), True) on a
\* rectangle of side lengths wd and ht: Douglas-Peucker starts from two
\* opposite corners and keeps the other two only if their distance to the
\* diagonal, wd*ht / sqrt(wd^2 + ht^2), exceeds epsilon = 0.04 * (wd + ht);
\* squared and multiplied by 625 this is the test below.  A single pixel
\* gives one vertex.
approxPolyDP(comp) ==
    LET b  == Box(comp)
        wd == b.x1 - b.x0
        ht == b.y1 - b.y0
    IN  IF wd = 0 /\ ht = 0 THEN << <<b.x0, b.y0>> >>
        ELSE IF 625 * (wd * ht) * (wd * ht) <= (wd + ht) * (wd + ht) * (wd * wd + ht * ht)
        THEN << <<b.x0, b.y0>>, <<b.x1, b.y1>> >>
        ELSE << <<b.x0, b.y0>>, <<b.x0, b.y1>>, <<b.x1, b.y1>>, <<b.x1, b.y0>> >>

\* "Close polygon": append the first coordinate unless the list is empty or
\* already ends with it
ClosePolygon(pixel_coords) ==
    IF pixel_coords # <<>> /\ pixel_coords[1] # pixel_coords[Len(pixel_coords)]
    THEN Append(pixel_coords, pixel_coords[1])
    ELSE pixel_coords

\* np.mean(plane[region_mask == 255]): plane holds one value per column
RegionMean(plane, comp) ==
    Quot(SumOf([p \in comp |-> plane[p[1] + 1]]), Cardinality(comp))

\* the filter with <= in place of <
Skipped_inclusive(comp, min_area) ==
    \/ contourArea(comp) <= 2 * min_area
    \/ moments(comp).m00 = 0

\* the two "continue" tests of the contour loop
Skipped(comp, min_area) ==
    \/ contourArea(comp) < 2 * min_area
    \/ moments(comp).m00 = 0

\* the delta formed as a sum
AbsDelta_sum(after, before) == Abs(after + before)

\* np.abs(index_after - index_before)
AbsDelta(after, before) == Abs(after - before)

\* the mask test with >= in place of >
AboveThreshold_inclusive(magnitude10, threshold) == magnitude10 >= 10 * threshold

\* the mask test with < in place of >
AboveThreshold_reversed(magnitude10, threshold) == magnitude10 < 10 * threshold

\* change_magnitude > threshold, on ten times the magnitude
AboveThreshold(magnitude10, threshold) == magnitude10 > 10 * threshold

\* "NDBI only if SWIR available": 'swir1' in bands_before and in bands_after
UseNdbi(bands_before, bands_after) == HasSwir1(bands_before) /\ HasSwir1(bands_after)

\* the transformer chosen from the after scene only
ChooseTransformer_afterOnly(geo_before, geo_after) == geo_after

\* geo_before or geo_after
ChooseTransformer(geo_before, geo_after) ==
    IF ~IsNone(geo_before) THEN geo_before ELSE geo_after

\* what a call of detect_changes leaves behind: its arguments, the error it
\* raised (None when it returned), its locals and the list it built
Outcome(threshold, min_area, error, raw_mask, change_mask, contours, changes) ==
    [threshold |-> threshold, min_area |-> min_area, error |-> error,
     raw_mask |-> raw_mask, change_mask |-> change_mask,
     contours |-> contours, changes |-> changes]

\* detect_changes(image_before_path, image_after_path, threshold, min_area).
\* change_magnitude holds ten times the magnitude, so that the factors 0.7 and
\* 0.8 are the integers 7 and 8.  A record leaves out the random id and the
\* spectral dict, and carries the pixels of its contour as region.
detect_changes(sc, threshold, min_area) ==
    LET loaded_before == load_sentinel2_bands(sc.before)
        loaded_after  == load_sentinel2_bands(sc.after)
        bands_before  == loaded_before.bands
        bands_after   == loaded_after.bands
    IN
    IF bands_before = <<>> \/ bands_after = <<>>
    THEN Outcome(threshold, min_area, Some("Could not load image bands"), {}, {}, <<>>, <<>>)
    ELSE
    LET geo_transformer == ChooseTransformer(loaded_before.geo_transformer,
                                             loaded_after.geo_transformer)
        h == sc.h
        w == sc.w
        ndvi_before == [c \in 1..w |-> calculate_ndvi(bands_before[c].nir, bands_before[c].red)]
        ndvi_after  == [c \in 1..w |-> calculate_ndvi(bands_after[c].nir, bands_after[c].red)]
        ndwi_before == [c \in 1..w |-> calculate_ndwi(bands_before[c].green, bands_before[c].nir)]
        ndwi_after  == [c \in 1..w |-> calculate_ndwi(bands_after[c].green, bands_after[c].nir)]
        has_ndbi    == UseNdbi(bands_before, bands_after)
        ndbi_before == [c \in 1..w |-> IF has_ndbi
                           THEN calculate_ndbi(Val(bands_before[c].swir1), bands_before[c].nir)
                           ELSE 0]
        ndbi_after  == [c \in 1..w |-> IF has_ndbi
                           THEN calculate_ndbi(Val(bands_after[c].swir1), bands_after[c].nir)
                           ELSE 0]
        change_magnitude ==
            [c \in 1..w |->
                LET m == Max(10 * AbsDelta(ndvi_after[c], ndvi_before[c]),
                             7 * AbsDelta(ndwi_after[c], ndwi_before[c]))
                IN  IF has_ndbi
                    THEN Max(m, 8 * AbsDelta(ndbi_after[c], ndbi_before[c]))
                    ELSE m]
        raw_mask    == {p \in Pixels(h, w) : AboveThreshold(change_magnitude[p[1] + 1], threshold)}
        change_mask == CleanMask(raw_mask, h, w)
        contours    == findContours(change_mask)
        Kept(comp)  == ~Skipped(comp, min_area)
        kept        == SelectSeq(contours, Kept)
        Record(comp) ==
            LET area  == contourArea(comp)
                M     == moments(comp)
                cx_px == Quot(M.m10, 6 * M.m00)
                cy_px == Quot(M.m01, 6 * M.m00)
                mean_ndvi_before == RegionMean(ndvi_before, comp)
                mean_ndvi_after  == RegionMean(ndvi_after, comp)
                mean_ndwi_before == RegionMean(ndwi_before, comp)
                mean_ndwi_after  == RegionMean(ndwi_after, comp)
                mean_ndbi_before == IF has_ndbi THEN Some(RegionMean(ndbi_before, comp)) ELSE None
                mean_ndbi_after  == IF has_ndbi THEN Some(RegionMean(ndbi_after, comp)) ELSE None
                class == classify_change_spectral(mean_ndvi_before, mean_ndvi_after,
                                                  mean_ndbi_before, mean_ndbi_after,
                                                  mean_ndwi_before, mean_ndwi_after)
                pixel_coords == ClosePolygon(approxPolyDP(comp))
                georef == ~IsNone(geo_transformer)
            IN  [type |-> class.change_type,
                 area |-> IF georef THEN area * 100 ELSE area,
                 area_pixels |-> area,
                 centroid |-> IF georef THEN pixel_to_geo(Val(geo_transformer), cx_px, cy_px)
                              ELSE <<cx_px, cy_px>>,
                 confidence |-> class.confidence,
                 geometry |-> IF georef
                              THEN pixels_to_geo_polygon(Val(geo_transformer), pixel_coords)
                              ELSE pixel_coords,
                 is_georeferenced |-> georef,
                 region |-> comp]
    IN  Outcome(threshold, min_area, None, raw_mask, change_mask, contours,
                [i \in DOMAIN kept |-> Record(kept[i])])

-----------------------------------------------------------------------------
(* Inputs of the detector: band values, scenes, thresholds, minimum areas    *)

\* band values handed to the index functions: zero, negative and positive
BandSamples == {-3, -1, 0, 1, 3}

\* band counts of a raster file: one or two bands (read as a single band),
\* RGB, 4 bands, with B11, with B12
Counts == {1, 2, 3, 4, 5, 6}

\* thresholds of a call: 0.30 (the schema's default), 0.35, 0.40, 0.50
Thresholds == {6000, 7000, 8000, 10000}

\* min_area of a call, in pixels
MinAreas == {0, 2}

\* the affine transform of a georeferenced before / after raster
TransformBefore == [a |-> 10, c |-> 1000, f |-> 5000]
TransformAfter == [a |-> 10, c |-> 3000, f |-> 7000]

File(readable, count, geo, cols) ==
    [readable |-> readable, count |-> count, geo |-> geo, cols |-> cols]

Scene(h, w, before, after) == [h |-> h, w |-> w, before |-> before, after |-> after]

\* a raster whose columns all carry spectrum s
Uniform(w, s) == [c \in 1..w |-> s]

\* how many runs of equal columns a profile scene has at most
MaxRuns == 3

\* the profiles of a two-row scene seven columns wide: each column unchanged,
\* changed in NDWI only (magnitude 0.35) or changed in NDVI (magnitude 0.5),
\* in at most MaxRuns runs of equal columns
ProfileShape == <<2, 7>>
Profiles ==
    {cols \in [1..ProfileShape[2] -> {"flat", "green", "red"}] :
        Cardinality({c \in 1..(ProfileShape[2] - 1) : cols[c] # cols[c + 1]}) < MaxRuns}

\* <<h, w>> of the scenes an analysis job runs on: a line, two squares and a
\* strip two pixels wide
JobShapes == {<<1, 3>>, <<2, 2>>, <<3, 3>>, <<2, 25>>}

\* the kinds of file a job may download: one rasterio cannot open, one with
\* no band, one without CRS, one georeferenced
FileKinds == {"unreadable", "empty", "plain", "geo"}

FileOfKind(kind, geo, cols) ==
    File(kind # "unreadable",
         IF kind = "empty" THEN 0 ELSE IF kind = "geo" THEN 5 ELSE 4,
         IF kind = "geo" THEN Some(geo) ELSE None,
         cols)

\* Analysis.threshold and Analysis.min_area (in half pixels: 0.5 and 2.0) of a job
JobThresholds == {6000}
JobMinAreas == {1, 4}

\* int(analysis.min_area), min_area counted in half pixels
IntOf(half_pixels) == half_pixels \div 2

\* @celery_app.task(bind=True, max_retries=3)
max_retries == 3

\* the number of times the database fails in one behaviour, at most
MaxFaults == 1

\* the Analysis row when the task is enqueued
NewAnalysis(threshold, min_area) ==
    [status |-> "pending", progress |-> 0, error_message |-> None,
     results_geojson |-> None, total_changes |-> 0,
     threshold |-> threshold, min_area |-> min_area]

\* the features of geojson_result
Features(changes) ==
    [i \in DOMAIN changes |->
        [type |-> changes[i].type, area |-> changes[i].area,
         confidence |-> changes[i].confidence, geometry |-> changes[i].geometry]]

\* the values of the variables a mode does not use
ClassifierIdle ==
    /\ deltas = <<>> /\ results = <<>>
    /\ pixel = <<>> /\ pixelOut = <<>> /\ pixel2 = <<>> /\ pixelOut2 = <<>>

DetectorIdle ==
    /\ sample = <<>> /\ index = <<>> /\ scene = <<>>
    /\ det = <<>> /\ det2 = <<>> /\ analysis = <<>> /\ task = <<>>

ServiceIdle ==
    /\ gee = <<>> /\ geeTask = <<>> /\ response = <<>>
    /\ analyses_db = <<>> /\ clock = 0

-----------------------------------------------------------------------------
(* The state machine: a behaviour exercises one of the two operating modes.  *)
(* Period mode makes up to MaxCalls calls on the module-level singleton      *)
(* change_classifier with one tuple; pixel-pair mode classifies two regions  *)
(* whose index deltas are equal and whose index levels may differ.           *)

InitPeriod ==
    /\ mode = "period"
    /\ \E ks \in SUBSET Keys :
         \E a \in SamplesIn("ndvi", ks), b \in SamplesIn("ndbi", ks),
            c \in SamplesIn("bsi", ks), d \in SamplesIn("nbr", ks) :
              deltas = MkDict(ks, a, b, c, d)
    /\ results = <<>>
    /\ pixel = <<>> /\ pixelOut = <<>> /\ pixel2 = <<>> /\ pixelOut2 = <<>>
    /\ DetectorIdle
    /\ ServiceIdle

InitPixel ==
    /\ mode = "pixel"
    /\ deltas = <<>> /\ results = <<>>
    /\ \E nb \in NdviBeforeSamples, dn \in DeltaNdviSamples, bp \in NdbiPairs,
          dw \in DeltaNdwiSamples :
         /\ InRange(nb + dn)
         /\ pixel = MkPixel(nb, nb + dn, bp[1], bp[2], 0, dw)
    /\ pixelOut = <<>> /\ pixel2 = <<>> /\ pixelOut2 = <<>>
    /\ DetectorIdle
    /\ ServiceIdle

Init == InitPeriod \/ InitPixel

\* change_classifier.classify(delta_ndvi=..., delta_ndbi=..., delta_bsi=..., delta_nbr=...)
Classify ==
    /\ mode = "period"
    /\ Len(results) < MaxCalls
    /\ DOMAIN deltas = Keys
    /\ results' = Append(results,
                         classify(deltas.ndvi, deltas.ndbi, deltas.bsi, deltas.nbr))
    /\ UNCHANGED <<mode, deltas, pixel, pixelOut, pixel2, pixelOut2>>
    /\ UNCHANGED detectorVars
    /\ UNCHANGED serviceVars

\* change_classifier.classify_from_dict(deltas)
ClassifyFromDict ==
    /\ mode = "period"
    /\ Len(results) < MaxCalls
    /\ results' = Append(results, classify_from_dict(deltas))
    /\ UNCHANGED <<mode, deltas, pixel, pixelOut, pixel2, pixelOut2>>
    /\ UNCHANGED detectorVars
    /\ UNCHANGED serviceVars

\* detect_changes: the classification of one region from its index means
ClassifyRegion ==
    /\ mode = "pixel"
    /\ pixelOut = <<>>
    /\ pixelOut' = <<Spectral(pixel)>>
    /\ UNCHANGED <<mode, deltas, results, pixel, pixel2, pixelOut2>>
    /\ UNCHANGED detectorVars
    /\ UNCHANGED serviceVars

\* detect_changes: the classification of another region, whose deltas equal
\* the first region's and whose NDVI, NDBI and NDWI levels may differ
ClassifyOtherRegion ==
    /\ mode = "pixel"
    /\ pixelOut # <<>>
    /\ pixelOut2 = <<>>
    /\ \E nb \in NdviBeforeSamples, s \in LevelShifts :
       \E bp \in SameDeltaNdbi(pixel.ndbi_before, pixel.ndbi_after, s) :
         LET dn == pixel.ndvi_after - pixel.ndvi_before
             px == MkPixel(nb, nb + dn, bp[1], bp[2],
                           pixel.ndwi_before + s, pixel.ndwi_after + s)
         IN  /\ InRange(nb + dn)
             /\ InRange(px.ndwi_before) /\ InRange(px.ndwi_after)
             /\ pixel2' = px
             /\ pixelOut2' = <<Spectral(px)>>
    /\ UNCHANGED <<mode, deltas, results, pixel, pixelOut>>
    /\ UNCHANGED detectorVars
    /\ UNCHANGED serviceVars

Next == Classify \/ ClassifyFromDict \/ ClassifyRegion \/ ClassifyOtherRegion

Spec == Init /\ [][Next]_vars

-----------------------------------------------------------------------------
(* The detector's state machine.  Index mode applies the four index          *)
(* functions to one pixel's band values.  Detect mode calls detect_changes   *)
(* on one scene, and a second time with a higher threshold.  Job mode runs   *)
(* process_analysis_task on an analysis of one scene, with Celery's retries. *)

InitIndex ==
    /\ mode = "index"
    /\ ClassifierIdle
    /\ ServiceIdle
    /\ \E blue \in BandSamples, red \in BandSamples, green \in BandSamples,
          nir \in BandSamples, swir \in BandSamples :
         sample = [blue |-> blue, red |-> red, green |-> green, nir |-> nir, swir |-> swir]
    /\ index = <<>>
    /\ scene = <<>> /\ det = <<>> /\ det2 = <<>> /\ analysis = <<>> /\ task = <<>>

\* one-pixel scenes: every pair of spectra and of band counts
InitSpectra ==
    /\ mode = "detect"
    /\ ClassifierIdle
    /\ ServiceIdle
    /\ \E s \in DOMAIN Palette, t \in DOMAIN Palette, cb \in Counts, ca \in Counts :
         scene = Scene(1, 1, File(TRUE, cb, None, <<s>>), File(TRUE, ca, None, <<t>>))
    /\ det = <<>> /\ det2 = <<>> /\ analysis = <<>> /\ task = <<>>
    /\ sample = <<>> /\ index = <<>>

\* profile scenes: the after raster departs from a flat before raster
InitProfile ==
    /\ mode = "detect"
    /\ ClassifierIdle
    /\ ServiceIdle
    /\ \E cols \in Profiles :
         scene = Scene(ProfileShape[1], ProfileShape[2],
                       File(TRUE, 4, None, Uniform(ProfileShape[2], "flat")),
                       File(TRUE, 4, None, cols))
    /\ det = <<>> /\ det2 = <<>> /\ analysis = <<>> /\ task = <<>>
    /\ sample = <<>> /\ index = <<>>

\* an analysis whose task is queued, on a scene of two uniform rasters; the
\* database of job mode never fails
InitJob ==
    /\ mode = "job"
    /\ ClassifierIdle
    /\ ServiceIdle
    /\ \E shape \in JobShapes, kb \in FileKinds, ka \in FileKinds,
          s \in {"flat", "red"}, t \in {"flat", "red"} :
         scene = Scene(shape[1], shape[2],
                       FileOfKind(kb, TransformBefore, Uniform(shape[2], s)),
                       FileOfKind(ka, TransformAfter, Uniform(shape[2], t)))
    /\ \E t \in JobThresholds, m \in JobMinAreas : analysis = NewAnalysis(t, m)
    /\ task = [at |-> "queued", retries |-> 0, runs |-> 0,
               db_may_fail |-> FALSE, faults |-> 0]
    /\ det = <<>> /\ det2 = <<>>
    /\ sample = <<>> /\ index = <<>>

InitDetect == InitIndex \/ InitSpectra \/ InitProfile \/ InitJob

\* calculate_ndvi, calculate_ndbi, calculate_ndwi and calculate_bsi on one pixel
CalculateIndices ==
    /\ mode = "index"
    /\ index = <<>>
    /\ index' = <<[ndvi |-> calculate_ndvi(sample.nir, sample.red),
                   ndbi |-> calculate_ndbi(sample.swir, sample.nir),
                   ndwi |-> calculate_ndwi(sample.green, sample.nir),
                   bsi  |-> calculate_bsi(sample.blue, sample.red, sample.nir, sample.swir)]>>
    /\ UNCHANGED <<mode, scene, det, det2, analysis, task, sample>>
    /\ UNCHANGED classifierVars
    /\ UNCHANGED serviceVars

\* detect_changes(before, after, threshold, min_area)
DetectChanges ==
    /\ mode = "detect"
    /\ det = <<>>
    /\ \E threshold \in Thresholds, min_area \in MinAreas :
         det' = <<detect_changes(scene, threshold, min_area)>>
    /\ UNCHANGED <<mode, scene, det2, analysis, task, sample, index>>
    /\ UNCHANGED classifierVars
    /\ UNCHANGED serviceVars

\* detect_changes on the same scene with the same min_area and a higher threshold
DetectChangesAgain ==
    /\ mode = "detect"
    /\ det # <<>>
    /\ det2 = <<>>
    /\ \E threshold \in Thresholds :
         /\ threshold > det[1].threshold
         /\ det2' = <<detect_changes(scene, threshold, det[1].min_area)>>
    /\ UNCHANGED <<mode, scene, det, analysis, task, sample, index>>
    /\ UNCHANGED classifierVars
    /\ UNCHANGED serviceVars

\* self.retry(exc=e, countdown=...): the task is queued again until
\* max_retries is used up, then the exception is final
Retry(t) ==
    IF t.retries < max_retries
    THEN [t EXCEPT !.at = "queued", !.retries = @ + 1]
    ELSE [t EXCEPT !.at = "given_up"]

\* the except branch: status failed, error_message = str(e), commit, then
\* self.retry; the row keeps the progress that was last committed
Failed(t, progress, message) ==
    /\ analysis' = [analysis EXCEPT !.status = "failed", !.progress = progress,
                                    !.error_message = Some(message)]
    /\ task' = Retry(t)

\* the except branch when its own query or commit raises: the exception
\* leaves the handler before self.retry is reached, and the row keeps what
\* was last committed
HandlerRaises(t, progress) ==
    /\ analysis' = [analysis EXCEPT !.progress = progress]
    /\ task' = [t EXCEPT !.at = "crashed"]

\* a db.commit() of the try block raises, in a behaviour whose database may
\* fail: the except branch runs, and its commit goes through or raises as well
CommitRaises(t, progress) ==
    /\ t.db_may_fail
    /\ t.faults < MaxFaults
    /\ LET u == [t EXCEPT !.faults = @ + 1]
       IN  \/ Failed(u, progress, "database error")
           \/ HandlerRaises(u, progress)

\* the progress last committed when one of the commits of lines 68-80 raises
ProgressCommits == {10, 20, 30, 40}

\* process_analysis_task up to its first commit: status processing, progress 10
TaskBegin ==
    /\ mode \in {"job", "api"}
    /\ task.at = "queued"
    /\ LET started == [task EXCEPT !.runs = @ + 1]
       IN  \/ /\ analysis' = [analysis EXCEPT !.status = "processing", !.progress = 10]
              /\ task' = [started EXCEPT !.at = "running"]
           \/ CommitRaises(started, analysis.progress)
    /\ UNCHANGED <<mode, scene, det, det2, sample, index>>
    /\ UNCHANGED classifierVars
    /\ UNCHANGED serviceVars

\* the rest of process_analysis_task: a download raises, or a commit raises,
\* or detect_changes raises, or the results are stored
TaskRun ==
    /\ mode \in {"job", "api"}
    /\ task.at = "running"
    /\ \/ /\ Failed(task, 20, "download failed")
          /\ UNCHANGED det
       \/ /\ \E p \in ProgressCommits : CommitRaises(task, p)
          /\ UNCHANGED det
       \/ LET out == detect_changes(scene, analysis.threshold, IntOf(analysis.min_area))
          IN  /\ det' = <<out>>
              /\ IF ~IsNone(out.error)
                 THEN Failed(task, 50, Val(out.error))
                 ELSE \/ /\ analysis' = [analysis EXCEPT
                                            !.status = "completed", !.progress = 100,
                                            !.total_changes = Len(out.changes),
                                            !.results_geojson = Some(Features(out.changes))]
                         /\ task' = [task EXCEPT !.at = "done"]
                      \/ \E p \in {50, 90} : CommitRaises(task, p)
    /\ UNCHANGED <<mode, scene, det2, sample, index>>
    /\ UNCHANGED classifierVars
    /\ UNCHANGED serviceVars

NextDetect == CalculateIndices \/ DetectChanges \/ DetectChangesAgain \/ TaskBegin \/ TaskRun

SpecDetect == InitDetect /\ [][NextDetect]_vars

-----------------------------------------------------------------------------
(* The service layer.  Api mode creates one Analysis through                 *)
(* POST /analysis/compare, runs process_analysis_task on it and answers one  *)
(* GET request at any moment.  The request of compare_images names two ready *)
(* images.                                                                   *)

\* the ids a client asks for: the row that is created gets id 1
AnalysisIds == {1, 2}

\* db.query(Analysis).filter(Analysis.id == analysis_id).first()
QueryAnalysis(id) == IF id = 1 /\ analysis # <<>> THEN Some(analysis) ELSE None

\* the gate of the three result endpoints, which also serves a failed analysis
StatusCode_failedServed(row) ==
    IF IsNone(row) THEN 404
    ELSE IF Val(row).status \notin {"completed", "failed"} THEN 400
    ELSE 200

\* the gate of the three result endpoints: HTTP 404 without a row, HTTP 400
\* unless its status is completed
StatusCode(row) ==
    IF IsNone(row) THEN 404
    ELSE IF Val(row).status # "completed" THEN 400
    ELSE 200

Http(endpoint, id, code, body) ==
    [endpoint |-> endpoint, id |-> id, code |-> code, body |-> body]

InitApi ==
    /\ mode = "api"
    /\ ClassifierIdle
    /\ \E ka \in {"unreadable", "geo"}, t \in {"flat", "red"} :
         scene = Scene(2, 2,
                       FileOfKind("geo", TransformBefore, Uniform(2, "flat")),
                       FileOfKind(ka, TransformAfter, Uniform(2, t)))
    /\ analysis = <<>>
    /\ \E f \in BOOLEAN :
         task = [at |-> "absent", retries |-> 0, runs |-> 0,
                 db_may_fail |-> f, faults |-> 0]
    /\ det = <<>> /\ det2 = <<>>
    /\ sample = <<>> /\ index = <<>>
    /\ ServiceIdle

\* POST /analysis/compare: the row is stored as pending, and
\* process_analysis_task.delay either queues the task or raises, which the
\* endpoint logs and passes over
compare_images ==
    /\ mode = "api"
    /\ analysis = <<>>
    /\ \E t \in JobThresholds, m \in JobMinAreas : analysis' = NewAnalysis(t, m)
    /\ \/ task' = [task EXCEPT !.at = "queued"]
       \/ task' = task
    /\ UNCHANGED <<mode, scene, det, det2, sample, index>>
    /\ UNCHANGED classifierVars
    /\ UNCHANGED serviceVars

\* GET /analysis/{analysis_id}
get_analysis_status ==
    /\ mode = "api"
    /\ response = <<>>
    /\ \E id \in AnalysisIds :
         LET row == QueryAnalysis(id)
         IN  response' = <<
               IF IsNone(row) THEN Http("status", id, 404, None)
               ELSE Http("status", id, 200,
                         Some([status |-> Val(row).status, progress |-> Val(row).progress,
                               message |-> Val(row).error_message])) >>
    /\ UNCHANGED <<mode, gee, geeTask, analyses_db, clock>>
    /\ UNCHANGED classifierVars
    /\ UNCHANGED detectorVars

\* GET /analysis/{analysis_id}/result
get_analysis_result ==
    /\ mode = "api"
    /\ response = <<>>
    /\ \E id \in AnalysisIds :
         LET row == QueryAnalysis(id)
         IN  response' = <<
               IF StatusCode(row) # 200 THEN Http("result", id, StatusCode(row), None)
               ELSE Http("result", id, 200,
                         Some([status |-> Val(row).status,
                               total_changes |-> Val(row).total_changes,
                               results_geojson |-> Val(row).results_geojson])) >>
    /\ UNCHANGED <<mode, gee, geeTask, analyses_db, clock>>
    /\ UNCHANGED classifierVars
    /\ UNCHANGED detectorVars

\* GET /changes/{analysis_id}: the stored features, or an empty collection
\* when no result is stored
get_changes ==
    /\ mode = "api"
    /\ response = <<>>
    /\ \E id \in AnalysisIds :
         LET row == QueryAnalysis(id)
         IN  response' = <<
               IF StatusCode(row) # 200 THEN Http("changes", id, StatusCode(row), None)
               ELSE Http("changes", id, 200,
                         Some([features |-> IF IsNone(Val(row).results_geojson) THEN <<>>
                                            ELSE Val(Val(row).results_geojson)])) >>
    /\ UNCHANGED <<mode, gee, geeTask, analyses_db, clock>>
    /\ UNCHANGED classifierVars
    /\ UNCHANGED detectorVars

(* Gee mode creates one GeeAnalysis through POST /gee/analyze and runs       *)
(* process_gee_analysis on it, one commit at a time, or the background       *)
(* coroutine of the endpoint when the enqueue raised.                        *)

\* what get_images_count and compare_periods report as the number of images
ImageCounts == {0, 3}

\* the deltas compare_periods finds between the two halves of the period
GeeDeltas == {MkDict(Keys, 0, 0, 0, 0), MkDict(Keys, -8000, 0, 0, 0)}

\* gee_service.compare_periods: the classification of the deltas, and the
\* number of images of the two halves
compare_periods(d, images) ==
    [classification |-> classify_from_dict(d), images_found |-> images]

\* lines 108-136 without the assignment of images_found
SaveComparison_keepCount(row, comparison) ==
    [row EXCEPT !.classification = Some(comparison.classification.change_type)]

\* the classification of the comparison is saved, and its images_found when
\* it is not zero
SaveComparison(row, comparison) ==
    [row EXCEPT !.classification = Some(comparison.classification.change_type),
                !.images_found = IF comparison.images_found # 0
                                 THEN comparison.images_found ELSE @]

\* the GeeAnalysis row that create_analysis stores
NewGeeAnalysis ==
    [status |-> "pending", progress |-> 0, error_message |-> None,
     images_found |-> 0, classification |-> None, time_series |-> None,
     tile_url_before |-> None, tile_url_after |-> None, ai_analysis |-> None]

\* db.query(GeeAnalysis).filter(GeeAnalysis.id == analysis_id).first()
QueryGee(id) == IF id = 1 /\ gee # <<>> THEN Some(gee) ELSE None

InitGee ==
    /\ mode = "gee"
    /\ ClassifierIdle
    /\ DetectorIdle
    /\ gee = <<>>
    /\ \E f \in BOOLEAN :
         geeTask = [at |-> "absent", retries |-> 0, runs |-> 0,
                    db_may_fail |-> f, faults |-> 0,
                    step |-> 0, comparison |-> None, raised |-> {}]
    /\ response = <<>> /\ analyses_db = <<>> /\ clock = 0

\* POST /gee/analyze with a valid request: the row is stored as pending, and
\* process_gee_analysis.delay either queues the task or raises, and then the
\* endpoint hands run_analysis to BackgroundTasks
create_analysis ==
    /\ mode = "gee"
    /\ gee = <<>>
    /\ gee' = NewGeeAnalysis
    /\ \/ geeTask' = [geeTask EXCEPT !.at = "queued"]
       \/ geeTask' = [geeTask EXCEPT !.at = "background"]
    /\ UNCHANGED <<mode, response, analyses_db, clock>>
    /\ UNCHANGED classifierVars
    /\ UNCHANGED detectorVars

\* the except branch of process_gee_analysis: status failed, error_message =
\* str(e), commit, then self.retry
GeeFailed(t, message) ==
    /\ gee' = [gee EXCEPT !.status = "failed", !.error_message = Some(message)]
    /\ geeTask' = Retry(t)

\* the except branch when its own query or commit raises: "except Exception:
\* pass", the row keeps what was last committed, then self.retry
GeeHandlerRaises(t) ==
    /\ gee' = gee
    /\ geeTask' = Retry(t)

\* a db.commit() of the try block raises
GeeCommitRaises(t) ==
    /\ t.db_may_fail
    /\ t.faults < MaxFaults
    /\ LET u == [t EXCEPT !.faults = @ + 1]
       IN  \/ GeeFailed(u, "database error")
           \/ GeeHandlerRaises(u)

\* process_gee_analysis up to its first commit: status processing, progress 5
GeeTaskBegin ==
    /\ mode = "gee"
    /\ geeTask.at = "queued"
    /\ LET started == [geeTask EXCEPT !.runs = @ + 1, !.step = 0,
                                      !.comparison = None, !.raised = {}]
       IN  \/ /\ gee' = [gee EXCEPT !.status = "processing", !.progress = 5]
              /\ geeTask' = [started EXCEPT !.at = "running"]
           \/ GeeCommitRaises(started)
    /\ UNCHANGED <<mode, response, analyses_db, clock>>
    /\ UNCHANGED classifierVars
    /\ UNCHANGED detectorVars

\* the commits that only store a progress: commit number -> progress
ProgressOnly == [k \in {1, 2, 4, 7, 9, 11} |->
                    CASE k = 1 -> 10 [] k = 2 -> 15 [] k = 4 -> 30
                      [] k = 7 -> 60 [] k = 9 -> 70 [] k = 11 -> 85]

\* process_gee_analysis from one commit to the next: the thirteen commits
\* that follow the first, with the calls between them
GeeTaskStep ==
    /\ mode = "gee"
    /\ geeTask.at = "running"
    /\ LET k == geeTask.step + 1
           next == [geeTask EXCEPT !.step = k]
           Raised(what) == [next EXCEPT !.raised = @ \cup {what}]
       IN  \/ GeeCommitRaises(geeTask)
           \/ /\ k \in DOMAIN ProgressOnly
              /\ gee' = [gee EXCEPT !.progress = ProgressOnly[k]]
              /\ geeTask' = next
           \* get_images_count, or images_found = 0 when it raises
           \/ /\ k = 3
              /\ \/ \E n \in ImageCounts :
                      /\ gee' = [gee EXCEPT !.images_found = n]
                      /\ geeTask' = next
                 \/ /\ gee' = [gee EXCEPT !.images_found = 0]
                    /\ geeTask' = Raised("count")
           \* compare_periods, outside any try, then progress 50
           \/ /\ k = 5
              /\ \/ \E d \in GeeDeltas, n \in ImageCounts :
                      /\ gee' = [gee EXCEPT !.progress = 50]
                      /\ geeTask' = [next EXCEPT !.comparison = Some(compare_periods(d, n))]
                 \/ GeeFailed(geeTask, "compare_periods failed")
           \* the classification, and images_found when the comparison has one
           \/ /\ k = 6
              /\ gee' = SaveComparison(gee, Val(geeTask.comparison))
              /\ geeTask' = next
           \* get_time_series, or [] when it raises
           \/ /\ k = 8
              /\ \/ \E ts \in {<<>>, <<"point">>} :
                      /\ gee' = [gee EXCEPT !.time_series = Some(ts)]
                      /\ geeTask' = next
                 \/ /\ gee' = [gee EXCEPT !.time_series = Some(<<>>)]
                    /\ geeTask' = Raised("series")
           \* get_comparison_tiles, whose URLs name the run that made them;
           \* nothing is assigned when it raises
           \/ /\ k = 10
              /\ \/ /\ gee' = [gee EXCEPT !.tile_url_before = Some(geeTask.runs),
                                          !.tile_url_after = Some(geeTask.runs)]
                    /\ geeTask' = next
                 \/ /\ gee' = gee
                    /\ geeTask' = Raised("tiles")
           \* llm_service.analyze_changes, or None when it raises
           \/ /\ k = 12
              /\ \/ /\ gee' = [gee EXCEPT !.ai_analysis = Some("text")]
                    /\ geeTask' = next
                 \/ /\ gee' = [gee EXCEPT !.ai_analysis = None]
                    /\ geeTask' = Raised("ai")
           \* status completed, progress 100
           \/ /\ k = 13
              /\ gee' = [gee EXCEPT !.status = "completed", !.progress = 100]
              /\ geeTask' = [next EXCEPT !.at = "done"]
    /\ UNCHANGED <<mode, response, analyses_db, clock>>
    /\ UNCHANGED classifierVars
    /\ UNCHANGED detectorVars

\* run_analysis, the coroutine create_analysis hands to BackgroundTasks:
\* run_full_analysis and the LLM, with one except branch and no retry
run_analysis ==
    /\ mode = "gee"
    /\ geeTask.at = "background"
    /\ LET ended == [geeTask EXCEPT !.at = "finished", !.runs = @ + 1]
       IN  \/ \E d \in GeeDeltas, n \in ImageCounts, ts \in {<<>>, <<"point">>},
                 ai \in {None, Some("text")} :
                 LET result == compare_periods(d, n)
                 IN  /\ gee' = [gee EXCEPT
                                  !.status = "completed", !.progress = 100,
                                  !.classification = Some(result.classification.change_type),
                                  !.images_found = result.images_found,
                                  !.time_series = Some(ts),
                                  !.tile_url_before = Some(ended.runs),
                                  !.tile_url_after = Some(ended.runs),
                                  !.ai_analysis = ai]
                     /\ geeTask' = ended
           \* run_full_analysis raises
           \/ /\ gee' = [gee EXCEPT !.status = "failed", !.progress = 10,
                                    !.error_message = Some("run_full_analysis failed")]
              /\ geeTask' = ended
           \* a commit raises, and the commit of the except branch goes
           \* through or raises as well
           \/ /\ geeTask.db_may_fail
              /\ geeTask.faults < MaxFaults
              /\ geeTask' = [ended EXCEPT !.faults = @ + 1]
              /\ \/ gee' = [gee EXCEPT !.status = "failed",
                                       !.error_message = Some("database error")]
                 \/ gee' = [gee EXCEPT !.status = "processing", !.progress = 10]
                 \/ gee' = gee
    /\ UNCHANGED <<mode, response, analyses_db, clock>>
    /\ UNCHANGED classifierVars
    /\ UNCHANGED detectorVars

\* GET /gee/{analysis_id}/tiles
get_analysis_tiles ==
    /\ mode = "gee"
    /\ response = <<>>
    /\ \E id \in AnalysisIds :
         LET row == QueryGee(id)
         IN  response' = <<
               IF StatusCode(row) # 200 THEN Http("tiles", id, StatusCode(row), None)
               ELSE Http("tiles", id, 200,
                         Some([tile_url_before |-> Val(row).tile_url_before,
                               tile_url_after |-> Val(row).tile_url_after])) >>
    /\ UNCHANGED <<mode, gee, geeTask, analyses_db, clock>>
    /\ UNCHANGED classifierVars
    /\ UNCHANGED detectorVars

(* Satellite mode serves up to MaxCalls requests of POST /satellite/analyze  *)
(* on images of 3 x 3 pixels, at moments of a clock that counts the          *)
(* milliseconds from an epoch that is a multiple of IdModulus.               *)

\* analysis_id = int(time.time() * 1000) % 1000000000
IdModulus == 1000000000

\* the moments at which requests are served
Instants == {0, 1, IdModulus - 1, IdModulus, IdModulus + 1}

InitSatellite ==
    /\ mode = "satellite"
    /\ ClassifierIdle
    /\ DetectorIdle
    /\ gee = <<>> /\ geeTask = <<>> /\ response = <<>>
    /\ analyses_db = <<>>
    /\ clock \in Instants

\* time passes between two requests
Tick ==
    /\ mode = "satellite"
    /\ \E t \in Instants :
         /\ t > clock
         /\ clock' = t
    /\ UNCHANGED <<mode, gee, geeTask, response, analyses_db>>
    /\ UNCHANGED classifierVars
    /\ UNCHANGED detectorVars

\* POST /satellite/analyze on two images of images_db, whose entries carry no
\* original_bounds: detect_changes, then the result is stored in analyses_db
\* under str(analysis_id); HTTP 500 when detect_changes raises
analyze_satellite_images ==
    /\ mode = "satellite"
    /\ Len(response) < MaxCalls
    /\ \E s \in {"flat", "red"}, t \in {"flat", "red"}, count \in {0, 4},
          threshold \in JobThresholds :
         LET out == detect_changes(Scene(3, 3, File(TRUE, 4, None, Uniform(3, s)),
                                               File(TRUE, count, None, Uniform(3, t))),
                                   threshold, 1)
             analysis_id == clock % IdModulus
             stored == [id |-> analysis_id, status |-> "completed",
                        total_changes |-> Len(out.changes),
                        image_before_id |-> s, image_after_id |-> t,
                        threshold |-> threshold]
         IN  IF ~IsNone(out.error)
             THEN /\ response' = Append(response, Http("analyze", None, 500, None))
                  /\ UNCHANGED analyses_db
             ELSE /\ analyses_db' = (analysis_id :> stored) @@ analyses_db
                  /\ response' = Append(response, Http("analyze", Some(analysis_id), 200, Some(stored)))
    /\ UNCHANGED <<mode, gee, geeTask, clock>>
    /\ UNCHANGED classifierVars
    /\ UNCHANGED detectorVars

InitJobs == InitApi \/ InitGee \/ InitSatellite

NextJobs ==
    \/ compare_images \/ TaskBegin \/ TaskRun
    \/ get_analysis_status \/ get_analysis_result \/ get_changes
    \/ create_analysis \/ GeeTaskBegin \/ GeeTaskStep \/ run_analysis
    \/ get_analysis_tiles
    \/ Tick \/ analyze_satellite_images

SpecJobs == InitJobs /\ [][NextJobs]_vars

\* a worker takes a queued task and runs it to its end, and the event loop
\* runs a background coroutine it was handed
SpecJobsFair ==
    /\ SpecJobs
    /\ WF_vars(TaskBegin) /\ WF_vars(TaskRun)
    /\ WF_vars(GeeTaskBegin) /\ WF_vars(GeeTaskStep)
    /\ WF_vars(run_analysis)

-----------------------------------------------------------------------------
(* Properties of ChangeClassifier.classify (period mode), checked under Spec *)

\* the tuple every call of the behaviour classifies
dNdvi == Get(deltas, "ndvi")
dNdbi == Get(deltas, "ndbi")
dBsi == Get(deltas, "bsi")
dNbr == Get(deltas, "nbr")

Calls == 1..Len(results)

\* the rules as the specification's decision table states them (section 4.5),
\* over the tuple: -0.25 = -5000, -0.20 = -4000, -0.15 = -3000, 0.05 = 1000,
\* 0.075 = 1500, 0.10 = 2000, 0.15 = 3000
BurnScar == dNbr < -5000 /\ dNdvi < -3000
NewConstruction == dNdvi < -3000 /\ dNdbi > 2000
BareSoil == dNdvi < -3000 /\ dBsi > 3000 /\ dNdbi < 2000
UrbanExpansion == dNdvi < -3000 /\ dNdbi > 1000 /\ dBsi > 1500
VegetationLoss == dNdvi < -4000
VegetationGrowth == dNdvi > 3000

\* C1: every call of classify returns exactly one ClassificationResult (it
\* never raises), of a declared change type, and all calls made with the same
\* tuple return the same change_type, confidence and alert_level.
C1_OneResultPerTuple ==
    \A i \in Calls :
        /\ results[i].kind = "return"
        /\ results[i].change_type \in ChangeType
        /\ \A j \in Calls :
              /\ results[j].change_type = results[i].change_type
              /\ results[j].confidence = results[i].confidence
              /\ results[j].alert_level = results[i].alert_level

C1_Witness ==
    /\ Len(results) >= 2
    /\ DOMAIN deltas = Keys
    /\ results[1].kind = "return"
    /\ results[2] = results[1]
    /\ results[1].change_type = "EXPANSAO_URBANA"

\* C2: delta_nbr < -0.25 and delta_ndvi < -0.15 give QUEIMADA, critical, with
\* confidence round(min(|delta_nbr| + 0.5*|delta_ndvi|, 1.0), 3) > 0, whatever
\* delta_ndbi and delta_bsi are.
C2_BurnScarFirst ==
    \A i \in Calls :
        BurnScar =>
            /\ results[i].kind = "return"
            /\ results[i].change_type = "QUEIMADA"
            /\ results[i].alert_level = "critical"
            /\ results[i].confidence = round3(Min(Abs(dNbr) + Half(Abs(dNdvi)), ONE))
            /\ results[i].confidence > 0

\* a burn scar whose tuple also satisfies the new-construction and bare-soil
\* conditions of the later rules
C2_Witness ==
    /\ Len(results) >= 1
    /\ BurnScar /\ dNdbi > 2000 /\ dBsi > 3000
    /\ results[1].change_type = "QUEIMADA"
    /\ results[1].confidence > 0

\* C3: when rule 1 does not match, delta_ndvi < -0.15 and delta_ndbi > 0.10
\* give NOVA_CONSTRUCAO, warning, with confidence
\* round(min(|delta_ndvi| + delta_ndbi, 1.0), 3), whatever delta_bsi is.
C3_NewConstruction ==
    \A i \in Calls :
        (~BurnScar /\ NewConstruction) =>
            /\ results[i].kind = "return"
            /\ results[i].change_type = "NOVA_CONSTRUCAO"
            /\ results[i].alert_level = "warning"
            /\ results[i].confidence = round3(Min(Abs(dNdvi) + dNdbi, ONE))

C3_Witness ==
    /\ Len(results) >= 1
    /\ ~BurnScar /\ NewConstruction /\ dBsi > 3000
    /\ results[1].change_type = "NOVA_CONSTRUCAO"
    /\ results[1].confidence < ONE

\* C4: DESMATAMENTO (critical, confidence round(min(|delta_ndvi|, 1.0), 3)) is
\* returned exactly when delta_ndvi < -0.20 and none of rules 1-4 matches; a
\* strong NDVI drop with an NDBI gain above 0.10 is never DESMATAMENTO.
C4_DeforestationExactly ==
    \A i \in Calls :
        /\ (results[i].change_type = "DESMATAMENTO") <=>
              (/\ VegetationLoss
               /\ ~BurnScar /\ ~NewConstruction /\ ~BareSoil /\ ~UrbanExpansion)
        /\ (results[i].change_type = "DESMATAMENTO") =>
              /\ results[i].alert_level = "critical"
              /\ results[i].confidence = round3(Min(Abs(dNdvi), ONE))
        /\ (VegetationLoss /\ dNdbi > 2000) => results[i].change_type # "DESMATAMENTO"

C4_Witness ==
    /\ Len(results) >= 1
    /\ results[1].change_type = "DESMATAMENTO"
    /\ dNdvi = -5000 /\ dNdbi = 400 /\ dBsi = 1000 /\ dNbr = -2000

\* C5: when rules 1 and 2 do not match, delta_ndvi < -0.15, delta_bsi > 0.15
\* and delta_ndbi < 0.10 give ENTULHO, critical, with confidence
\* round(min(|delta_ndvi| + delta_bsi, 1.0), 3).
C5_BareSoil ==
    \A i \in Calls :
        (~BurnScar /\ ~NewConstruction /\ BareSoil) =>
            /\ results[i].kind = "return"
            /\ results[i].change_type = "ENTULHO"
            /\ results[i].alert_level = "critical"
            /\ results[i].confidence = round3(Min(Abs(dNdvi) + dBsi, ONE))

C5_Witness ==
    /\ Len(results) >= 1
    /\ ~BurnScar /\ ~NewConstruction /\ BareSoil
    /\ dNdbi > 1000
    /\ results[1].change_type = "ENTULHO"

\* C6 as stated: when rules 1-3 do not match and delta_ndvi < -0.15,
\* delta_ndbi >= 0.05 and delta_bsi >= 0.075 give EXPANSAO_URBANA (warning),
\* also when a delta equals exactly half its threshold.
C6_Original_HalfThresholdInclusive ==
    \A i \in Calls :
        (/\ ~BurnScar /\ ~NewConstruction /\ ~BareSoil
         /\ dNdvi < -3000 /\ dNdbi >= 1000 /\ dBsi >= 1500) =>
            /\ results[i].change_type = "EXPANSAO_URBANA"
            /\ results[i].alert_level = "warning"

\* C6 amended: when rules 1-3 do not match and delta_ndvi < -0.15, delta_ndbi
\* strictly above 0.05 and delta_bsi strictly above 0.075 give EXPANSAO_URBANA
\* (warning); a delta equal to exactly half its threshold does not match.
C6_UrbanExpansionStrict ==
    \A i \in Calls :
        /\ (/\ ~BurnScar /\ ~NewConstruction /\ ~BareSoil
            /\ dNdvi < -3000 /\ dNdbi > 1000 /\ dBsi > 1500) =>
               /\ results[i].kind = "return"
               /\ results[i].change_type = "EXPANSAO_URBANA"
               /\ results[i].alert_level = "warning"
        /\ (dNdbi = 1000 \/ dBsi = 1500) => results[i].change_type # "EXPANSAO_URBANA"

C6_Witness ==
    /\ Len(results) >= 1
    /\ ~BurnScar /\ ~NewConstruction /\ ~BareSoil
    /\ dNdvi < -3000 /\ dNdbi = 1002 /\ dBsi = 1502
    /\ results[1].change_type = "EXPANSAO_URBANA"

\* C7: delta_ndvi > 0.15 gives REFLORESTAMENTO, success, with confidence
\* round(min(delta_ndvi, 1.0), 3), whatever the other three deltas are.
C7_VegetationGrowth ==
    \A i \in Calls :
        VegetationGrowth =>
            /\ results[i].kind = "return"
            /\ results[i].change_type = "REFLORESTAMENTO"
            /\ results[i].alert_level = "success"
            /\ results[i].confidence = round3(Min(dNdvi, ONE))

C7_Witness ==
    /\ Len(results) >= 1
    /\ VegetationGrowth /\ dNdbi > 2000 /\ dBsi > 3000 /\ dNbr < -5000
    /\ results[1].change_type = "REFLORESTAMENTO"

\* C8: when all four deltas are at most 0.05 in magnitude the result is
\* SEM_MUDANCA, info, with confidence exactly 0; and SEM_MUDANCA is returned
\* only when none of rules 1-6 matches.
C8_NoSignificantChange ==
    \A i \in Calls :
        /\ (Abs(dNdvi) <= 1000 /\ Abs(dNdbi) <= 1000 /\ Abs(dBsi) <= 1000 /\ Abs(dNbr) <= 1000) =>
              /\ results[i].kind = "return"
              /\ results[i].change_type = "SEM_MUDANCA"
              /\ results[i].alert_level = "info"
              /\ results[i].confidence = 0
        /\ (results[i].change_type = "SEM_MUDANCA") =>
              /\ ~BurnScar /\ ~NewConstruction /\ ~BareSoil /\ ~UrbanExpansion
              /\ ~VegetationLoss /\ ~VegetationGrowth

C8_Witness ==
    /\ Len(results) >= 1
    /\ dNdvi = 400 /\ dNdbi = 200 /\ dBsi = 200 /\ dNbr = 200
    /\ results[1].change_type = "SEM_MUDANCA"
    /\ results[1].confidence = 0

-----------------------------------------------------------------------------
(* Properties of the confidences of both classifiers *)

\* the confidences returned so far, by classifier
PeriodConfidences == {results[i].confidence : i \in Calls}
PixelConfidences ==
    {o.confidence : o \in {pixelOut[i] : i \in 1..Len(pixelOut)}
                          \cup {pixelOut2[i] : i \in 1..Len(pixelOut2)}}

Clamped(c) == 0 <= c /\ c <= ONE
Rounded3(c) == c % MILLI = 0

\* C9 as stated: every confidence returned by either classifier lies in
\* [0, 1] and is a multiple of 0.001.
C9_Original_BothRounded ==
    \A c \in PeriodConfidences \cup PixelConfidences : Clamped(c) /\ Rounded3(c)

\* C9 amended: every confidence returned by either classifier lies in [0, 1];
\* the confidences of ChangeClassifier.classify are multiples of 0.001, while
\* classify_change_spectral returns its confidence unrounded.
C9_ClampedAndPeriodRounded ==
    /\ \A c \in PeriodConfidences : Clamped(c) /\ Rounded3(c)
    /\ \A c \in PixelConfidences : Clamped(c)

\* a period-mode confidence that the rounding changed (|delta_ndvi| = 0.2006
\* gives 0.201)
C9_WitnessPeriod ==
    /\ mode = "period"
    /\ Len(results) >= 1
    /\ dNdvi = -4012
    /\ results[1].change_type = "DESMATAMENTO"
    /\ results[1].confidence = 4020

\* a pixel-pair confidence that is clamped at 1.0, and one that is no multiple
\* of 0.001
C9_Witness ==
    /\ mode = "pixel"
    /\ pixelOut # <<>> /\ pixelOut2 # <<>>
    /\ pixelOut[1].confidence = ONE
    /\ ~Rounded3(pixelOut2[1].confidence)

-----------------------------------------------------------------------------
(* Properties of classify_change_spectral (pixel-pair mode) *)

BothClassified == mode = "pixel" /\ pixelOut # <<>> /\ pixelOut2 # <<>>

DeltaNdviOf(px) == px.ndvi_after - px.ndvi_before
DeltaNdwiOf(px) == px.ndwi_after - px.ndwi_before
\* delta_ndbi as the claim reads it: the difference, or None when a mean is absent
DeltaNdbiOf(px) ==
    IF IsNone(px.ndbi_before) \/ IsNone(px.ndbi_after)
    THEN None
    ELSE Some(Val(px.ndbi_after) - Val(px.ndbi_before))

SameDeltas ==
    /\ DeltaNdviOf(pixel) = DeltaNdviOf(pixel2)
    /\ DeltaNdbiOf(pixel) = DeltaNdbiOf(pixel2)
    /\ DeltaNdwiOf(pixel) = DeltaNdwiOf(pixel2)

\* C10 as stated: two calls whose (delta_ndvi, delta_ndbi, delta_ndwi) are
\* equal return the same change type and confidence.
C10_Original_FunctionOfDeltas ==
    (BothClassified /\ SameDeltas) => pixelOut2 = pixelOut

\* C10 amended: two calls whose ndvi_before and ndvi_after are equal and whose
\* delta_ndbi and delta_ndwi are equal return the same change type and
\* confidence, also when the NDBI and NDWI levels differ; equal delta_ndvi
\* alone does not suffice.
C10_FunctionOfDeltasAndNdviLevel ==
    (/\ BothClassified /\ SameDeltas
     /\ pixel.ndvi_before = pixel2.ndvi_before
     /\ pixel.ndvi_after = pixel2.ndvi_after) => pixelOut2 = pixelOut

C10_Witness ==
    /\ BothClassified /\ SameDeltas
    /\ pixel.ndvi_before = pixel2.ndvi_before
    /\ pixel.ndvi_after = pixel2.ndvi_after
    /\ ~IsNone(pixel.ndbi_after) /\ ~IsNone(pixel2.ndbi_after)
    /\ pixel.ndbi_after # pixel2.ndbi_after
    /\ pixel.ndwi_after # pixel2.ndwi_after
    /\ pixelOut2 = pixelOut
    /\ pixelOut[1].change_type = "construction"

\* the deltas and the rule conditions of the first region's call, as the
\* decision table states them: 0.05 = 1000, 0.1 = 2000, 0.15 = 3000,
\* 0.2 = 4000, 0.3 = 6000
FirstClassified == mode = "pixel" /\ pixelOut # <<>>
pxNdvi == DeltaNdviOf(pixel)
pxNdwi == DeltaNdwiOf(pixel)
pxNdbi == DeltaNdbiOf(pixel)
PxVegetationLoss == pxNdvi < -3000 /\ pixel.ndvi_before > 6000
PxVegetationGrowth == pxNdvi > 3000
PxBuiltUp == ~IsNone(pxNdbi) /\ Val(pxNdbi) > 2000
PxWater == pxNdwi > 4000 \/ pxNdwi < -4000
PxModerate == Abs(pxNdvi) > 2000 \/ (~IsNone(pxNdbi) /\ Abs(Val(pxNdbi)) > 1000)

\* C11 as stated: when no earlier rule matches, moderate deltas give
\* soil_movement with confidence 0.4, and anything else gives the
\* no-significant-change outcome with confidence 0.
C11_Original_FallbackConfidenceZero ==
    (/\ FirstClassified
     /\ ~PxVegetationLoss /\ ~PxVegetationGrowth /\ ~PxBuiltUp /\ ~PxWater) =>
        IF PxModerate
        THEN pixelOut[1] = [change_type |-> "soil_movement", confidence |-> 8000]
        ELSE pixelOut[1].confidence = 0

\* C11 amended: when no earlier rule matches, moderate deltas give
\* soil_movement with the fixed confidence 0.4, and anything else gives the
\* outcome "unknown" with the fixed confidence 0.3.
C11_FallbackUnknown ==
    (/\ FirstClassified
     /\ ~PxVegetationLoss /\ ~PxVegetationGrowth /\ ~PxBuiltUp /\ ~PxWater) =>
        IF PxModerate
        THEN pixelOut[1] = [change_type |-> "soil_movement", confidence |-> 8000]
        ELSE pixelOut[1] = [change_type |-> "unknown", confidence |-> 6000]

\* a moderate NDBI delta alone (NDVI unchanged) classified as soil movement
C11_Witness ==
    /\ FirstClassified
    /\ ~PxVegetationLoss /\ ~PxVegetationGrowth /\ ~PxBuiltUp /\ ~PxWater
    /\ pxNdvi = 0 /\ ~IsNone(pxNdbi) /\ Val(pxNdbi) = 1002
    /\ pixelOut[1].change_type = "soil_movement"

C11_WitnessUnknown ==
    /\ FirstClassified
    /\ ~PxVegetationLoss /\ ~PxVegetationGrowth /\ ~PxBuiltUp /\ ~PxWater
    /\ ~PxModerate /\ pxNdvi = 2000
    /\ pixelOut[1].change_type = "unknown"

\* C12: when no vegetation-loss, vegetation-growth or built-up rule matches,
\* delta_ndwi > 0.20 gives water_increase and delta_ndwi < -0.20 gives
\* water_decrease, each with confidence min(2*|delta_ndwi|, 1.0); a water
\* outcome is never returned when an earlier rule matches.
C12_WaterAfterEarlierRules ==
    FirstClassified =>
        /\ (~PxVegetationLoss /\ ~PxVegetationGrowth /\ ~PxBuiltUp /\ pxNdwi > 4000) =>
              pixelOut[1] = [change_type |-> "water_increase",
                             confidence  |-> Min(2 * Abs(pxNdwi), ONE)]
        /\ (~PxVegetationLoss /\ ~PxVegetationGrowth /\ ~PxBuiltUp /\ pxNdwi < -4000) =>
              pixelOut[1] = [change_type |-> "water_decrease",
                             confidence  |-> Min(2 * Abs(pxNdwi), ONE)]
        /\ (pixelOut[1].change_type \in {"water_increase", "water_decrease"}) =>
              ~PxVegetationLoss /\ ~PxVegetationGrowth /\ ~PxBuiltUp

\* a water decrease whose confidence is not clamped, with an NDVI loss that
\* is no vegetation loss because ndvi_before is not above 0.3
C12_Witness ==
    /\ FirstClassified
    /\ pxNdvi < -3000 /\ pixel.ndvi_before <= 6000
    /\ pxNdwi = -4002
    /\ pixelOut[1] = [change_type |-> "water_decrease", confidence |-> 8004]

-----------------------------------------------------------------------------
(* Claims about the detector *)

\* the outcomes of the calls of detect_changes made so far
Outcomes == {det[i] : i \in DOMAIN det} \cup {det2[i] : i \in DOMAIN det2}

\* the contour model rests on this: every component of a cleaned mask is a
\* full rectangle
ComponentsAreRectangles ==
    \A o \in Outcomes : \A i \in DOMAIN o.contours : IsRectangle(o.contours[i])

\* the bands dict of column c of a raster file, and the index deltas of
\* column c between the two rasters of the scene
BandsAt(file, c) == BandsOf(file.count, Palette[file.cols[c]])
DNdviAt(c) ==
    Abs(calculate_ndvi(BandsAt(scene.after, c).nir, BandsAt(scene.after, c).red)
        - calculate_ndvi(BandsAt(scene.before, c).nir, BandsAt(scene.before, c).red))
DNdwiAt(c) ==
    Abs(calculate_ndwi(BandsAt(scene.after, c).green, BandsAt(scene.after, c).nir)
        - calculate_ndwi(BandsAt(scene.before, c).green, BandsAt(scene.before, c).nir))
DNdbiAt(c) ==
    Abs(calculate_ndbi(BandsAt(scene.after, c).swir1[1], BandsAt(scene.after, c).nir)
        - calculate_ndbi(BandsAt(scene.before, c).swir1[1], BandsAt(scene.before, c).nir))
BothCarrySwir1 == scene.before.count >= 5 /\ scene.after.count >= 5

\* C13: a pixel is set in the raw change mask if and only if
\* max(|delta_ndvi|, 0.7*|delta_ndwi|, and 0.8*|delta_ndbi| when both scenes
\* carry SWIR1) is strictly greater than threshold (all terms times ten).
C13_MaskIffAboveThreshold ==
    \A o \in Outcomes : IsNone(o.error) =>
        \A p \in Pixels(scene.h, scene.w) :
            LET c == p[1] + 1
                m == Max(10 * DNdviAt(c), 7 * DNdwiAt(c))
                magnitude10 == IF BothCarrySwir1 THEN Max(m, 8 * DNdbiAt(c)) ELSE m
            IN  (p \in o.raw_mask) <=> (magnitude10 > 10 * o.threshold)

\* an NDBI-only change of 0.5 between two rasters with SWIR1: magnitude 0.4 is
\* above the threshold 0.35 and the pixel is set, and it equals the threshold
\* 0.4 and the pixel is not set
C13_Witness ==
    /\ mode = "detect" /\ det # <<>> /\ det2 # <<>>
    /\ BothCarrySwir1
    /\ scene.before.cols = <<"flat">> /\ scene.after.cols = <<"swir">>
    /\ det[1].threshold = 7000 /\ det[1].raw_mask = {<<0, 0>>}
    /\ det2[1].threshold = 8000 /\ det2[1].raw_mask = {}

\* the same change when the before raster has no SWIR1: NDBI does not count
C13_WitnessNoSwir1 ==
    /\ mode = "detect" /\ det # <<>>
    /\ scene.before.count = 4 /\ scene.after.count = 5
    /\ scene.before.cols = <<"flat">> /\ scene.after.cols = <<"swir">>
    /\ det[1].threshold = 6000 /\ det[1].raw_mask = {}

\* the two calls of detect mode returned: the second has the higher threshold
BothReturned ==
    /\ mode = "detect" /\ det # <<>> /\ det2 # <<>>
    /\ IsNone(det[1].error) /\ IsNone(det2[1].error)

\* the pixels covered by the regions of the records a call returned
Covered(o) == UNION {o.changes[i].region : i \in DOMAIN o.changes}

\* C14 as stated: raising the threshold from t1 to t2 > t1, every pixel
\* covered by a region at t2 is covered by a region at t1, and the number of
\* returned regions at t2 is not larger than at t1.
C14_Original_FewerRegions ==
    BothReturned =>
        /\ Covered(det2[1]) \subseteq Covered(det[1])
        /\ Len(det2[1].changes) <= Len(det[1].changes)

\* C14 amended: raising the threshold from t1 to t2 > t1 (same scenes, same
\* min_area), every pixel covered by a region at t2 is covered by a region at
\* t1; the number of regions may grow, because a region can split.
C14_CoverageShrinks ==
    BothReturned => Covered(det2[1]) \subseteq Covered(det[1])

\* one region at the lower threshold splits into two at the higher one
C14_Witness ==
    /\ BothReturned
    /\ Len(det[1].changes) = 1
    /\ Len(det2[1].changes) = 2
    /\ Covered(det2[1]) # Covered(det[1])
    /\ Covered(det2[1]) \subseteq Covered(det[1])

\* both files can be read and have a band
BothLoadable ==
    /\ scene # <<>>
    /\ scene.before.readable /\ scene.before.count > 0
    /\ scene.after.readable /\ scene.after.count > 0

\* same band count, same dimensions, same values
IdenticalRasters ==
    /\ BothLoadable
    /\ scene.before.count = scene.after.count
    /\ scene.before.cols = scene.after.cols

\* C15: if the two rasters have identical pixel content, detect_changes
\* returns an empty list for every threshold in (0, 1] and every min_area,
\* and it returns: it raises no error.
C15_IdenticalRastersNoChanges ==
    \A o \in Outcomes :
        (IdenticalRasters /\ o.threshold > 0 /\ o.threshold <= ONE) =>
            IsNone(o.error) /\ o.changes = <<>>

\* two identical 3x3 rasters whose NDVI is not 0, compared by a job that
\* completes with no change
C15_Witness ==
    /\ mode = "job" /\ det # <<>>
    /\ IdenticalRasters
    /\ scene.h = 3 /\ scene.w = 3 /\ scene.before.cols[1] = "red"
    /\ IsNone(det[1].error) /\ det[1].changes = <<>> /\ det[1].raw_mask = {}
    /\ analysis.status = "completed" /\ analysis.total_changes = 0

\* C16: every record returned by detect_changes has area_pixels >= min_area,
\* and a contour of the cleaned mask is left out of the result only if its
\* area is below min_area or its zeroth moment is 0 (areas in half pixels).
C16_OnlyAreaFilter ==
    \A o \in Outcomes :
        /\ \A i \in DOMAIN o.changes : o.changes[i].area_pixels >= 2 * o.min_area
        /\ \A i \in DOMAIN o.changes :
              \E j \in DOMAIN o.contours : o.changes[i].region = o.contours[j]
        /\ \A j \in DOMAIN o.contours :
              (\A i \in DOMAIN o.changes : o.changes[i].region # o.contours[j]) =>
                  \/ contourArea(o.contours[j]) < 2 * o.min_area
                  \/ moments(o.contours[j]).m00 = 0

\* a region whose area equals min_area is returned, and at the higher
\* threshold the contour that is left has a smaller area and is dropped
C16_Witness ==
    /\ BothReturned
    /\ det[1].min_area = 2
    /\ \E i \in DOMAIN det[1].changes : det[1].changes[i].area_pixels = 2 * det[1].min_area
    /\ det2[1].contours # <<>> /\ det2[1].changes = <<>>
    /\ contourArea(det2[1].contours[1]) > 0

\* a line of pixels has area 0: with min_area 0 it is dropped by the m00 test
C16_WitnessZeroMoment ==
    /\ mode = "job" /\ det # <<>>
    /\ det[1].min_area = 0
    /\ det[1].contours # <<>> /\ det[1].changes = <<>>
    /\ moments(det[1].contours[1]).m00 = 0

\* C17: for every finite band input, zero and negative values included, each
\* of the four index functions returns a value in [-1, 1], and 0.0 where its
\* denominator is zero.
C17_IndexInRange ==
    (mode = "index" /\ index # <<>>) =>
        /\ InRange(index[1].ndvi) /\ InRange(index[1].ndbi)
        /\ InRange(index[1].ndwi) /\ InRange(index[1].bsi)
        /\ (sample.nir + sample.red = 0) => index[1].ndvi = 0
        /\ (sample.swir + sample.nir = 0) => index[1].ndbi = 0
        /\ (sample.green + sample.nir = 0) => index[1].ndwi = 0
        /\ (sample.swir + sample.red + sample.nir + sample.blue = 0) => index[1].bsi = 0

\* a negative red band takes the NDVI quotient to 2, clipped to 1, and green
\* and NIR cancel in the NDWI denominator
C17_Witness ==
    /\ mode = "index" /\ index # <<>>
    /\ sample.nir = 3 /\ sample.red = -1 /\ sample.green = -3
    /\ index[1].ndvi = ONE /\ index[1].ndwi = 0

\* C18 as stated: every geometry emitted by detect_changes is a closed ring
\* with at least 4 coordinates: its first coordinate equals its last and its
\* length is at least 4, whatever vertex list the simplification produces.
C18_ClosedRingOfFour ==
    \A o \in Outcomes : \A i \in DOMAIN o.changes :
        LET ring == o.changes[i].geometry
        IN  /\ Len(ring) >= 4
            /\ ring[1] = ring[Len(ring)]

\* a changed strip 2 pixels wide and 25 long (area 24): the simplification
\* keeps two opposite corners, and closing the list gives a ring of 3
C18_TwoVertexRing ==
    /\ mode = "job" /\ det # <<>>
    /\ scene.h = 2 /\ scene.w = 25
    /\ Len(det[1].changes) = 1
    /\ det[1].changes[1].area_pixels = 48
    /\ Len(approxPolyDP(det[1].changes[1].region)) = 2
    /\ Len(det[1].changes[1].geometry) = 3

\* C19: if either raster cannot be read or yields no bands, detect_changes
\* fails with one error before any contour or record is produced; no call
\* leaves both an error and records; and an analysis whose status is failed
\* has no results_geojson.
C19_AllOrNothing ==
    /\ \A o \in Outcomes :
          /\ ~BothLoadable =>
                /\ o.error = Some("Could not load image bands")
                /\ o.contours = <<>> /\ o.changes = <<>>
          /\ ~IsNone(o.error) => o.changes = <<>>
    /\ (mode = "job" /\ analysis.status = "failed") => IsNone(analysis.results_geojson)

\* the after raster has no band to read although the scene differs
\* everywhere: the call raised, and the job stored the message and no result
C19_Witness ==
    /\ mode = "job" /\ det # <<>>
    /\ scene.before.readable /\ scene.before.count > 0
    /\ scene.after.readable /\ scene.after.count = 0
    /\ scene.before.cols[1] = "flat" /\ scene.after.cols[1] = "red"
    /\ det[1].error = Some("Could not load image bands")
    /\ analysis.status = "failed"
    /\ analysis.error_message = Some("Could not load image bands")
    /\ IsNone(analysis.results_geojson)

\* at least one raster of the scene is georeferenced
AnyGeoreferenced == ~IsNone(scene.before.geo) \/ ~IsNone(scene.after.geo)

\* C20: when neither raster carries a transform and CRS, detect_changes does
\* not fail, and every record has is_georeferenced = false, geometry and
\* centroid in pixel coordinates and area = area_pixels; a record has
\* is_georeferenced = true exactly when at least one raster is
\* georeferenced, and then area = 100 * area_pixels.
C20_GeoreferencedOrPixels ==
    \A o \in Outcomes : BothLoadable =>
        /\ ~AnyGeoreferenced => IsNone(o.error)
        /\ \A i \in DOMAIN o.changes :
              LET r == o.changes[i]
              IN  /\ r.is_georeferenced = AnyGeoreferenced
                  /\ AnyGeoreferenced => r.area = 100 * r.area_pixels
                  /\ ~AnyGeoreferenced =>
                        /\ r.area = r.area_pixels
                        /\ r.centroid \in Pixels(scene.h, scene.w)
                        /\ \A k \in DOMAIN r.geometry : r.geometry[k] \in Pixels(scene.h, scene.w)

\* a 3x3 change between two rasters without CRS: one record in pixel terms
C20_Witness ==
    /\ mode = "job" /\ det # <<>>
    /\ BothLoadable /\ ~AnyGeoreferenced
    /\ scene.h = 3 /\ scene.w = 3
    /\ Len(det[1].changes) = 1
    /\ det[1].changes[1].is_georeferenced = FALSE
    /\ det[1].changes[1].area = 8 /\ det[1].changes[1].area_pixels = 8
    /\ det[1].changes[1].centroid = <<1, 1>>
    /\ det[1].changes[1].geometry = << <<0, 0>>, <<0, 2>>, <<2, 2>>, <<2, 0>>, <<0, 0>> >>

\* only the after raster is georeferenced: its transform places the record
C20_WitnessAfterOnly ==
    /\ mode = "job" /\ det # <<>>
    /\ BothLoadable /\ IsNone(scene.before.geo) /\ ~IsNone(scene.after.geo)
    /\ scene.h = 3 /\ scene.w = 3
    /\ Len(det[1].changes) = 1
    /\ det[1].changes[1].is_georeferenced = TRUE
    /\ det[1].changes[1].area = 800
    /\ det[1].changes[1].centroid = <<3015, 6985>>

-----------------------------------------------------------------------------
(* Further claims about the classifiers and the detector *)

\* the members of the ChangeType enumeration of change features
SchemaChangeType ==
    {"construction", "demolition", "deforestation", "vegetation_growth",
     "soil_movement", "debris", "urban_expansion", "unknown"}

\* C21 as stated: every type that classify_change_spectral returns, and hence
\* detect_changes puts in a change record, is a member of the ChangeType
\* enumeration declared for change features.
C21_TypeInEnumeration ==
    /\ \A i \in DOMAIN pixelOut : pixelOut[i].change_type \in SchemaChangeType
    /\ \A i \in DOMAIN pixelOut2 : pixelOut2[i].change_type \in SchemaChangeType

\* a vegetation loss that ends above NDVI 0.2 and has no NDBI gain
C21_VegetationLoss ==
    /\ mode = "pixel" /\ pixelOut # <<>>
    /\ pixel.ndvi_before = 10000 /\ pixel.ndvi_after = 4976
    /\ pixelOut[1].change_type = "vegetation_loss"

\* C28: classify returns a loss-type outcome only when delta_ndvi < -0.15;
\* for every tuple with delta_ndvi >= -0.15 the result is REFLORESTAMENTO or
\* SEM_MUDANCA, however large the other deltas are; and confidence is 0
\* exactly when the result is SEM_MUDANCA.
C28_LossOnlyBelowModerateDrop ==
    \A i \in Calls :
        /\ (results[i].change_type \in
               {"QUEIMADA", "NOVA_CONSTRUCAO", "ENTULHO", "EXPANSAO_URBANA", "DESMATAMENTO"})
              => dNdvi < -3000
        /\ (dNdvi >= -3000) => results[i].change_type \in {"REFLORESTAMENTO", "SEM_MUDANCA"}
        /\ (results[i].confidence = 0) <=> (results[i].change_type = "SEM_MUDANCA")

\* delta_ndvi exactly -0.15 with the other three deltas at their extremes
C28_Witness ==
    /\ mode = "period" /\ results # <<>>
    /\ dNdvi = -3000 /\ dNdbi = 2 * ONE /\ dBsi = 2 * ONE /\ dNbr = -2 * ONE
    /\ results[1].change_type = "SEM_MUDANCA" /\ results[1].confidence = 0

\* both files are read in single-band mode
BothSingleBand ==
    /\ BothLoadable
    /\ scene.before.count < 3 /\ scene.after.count < 3

\* C29: when both rasters are loaded in single-band mode, detect_changes
\* returns zero changes for every pixel content, every threshold > 0 and
\* every min_area: no pixel is set in the mask.
C29_SingleBandNoChanges ==
    \A o \in Outcomes : (BothSingleBand /\ o.threshold > 0) =>
        /\ IsNone(o.error)
        /\ o.raw_mask = {}
        /\ o.changes = <<>>

\* two single-band files whose only band differs
C29_Witness ==
    /\ mode = "detect" /\ det # <<>>
    /\ BothSingleBand
    /\ scene.before.count = 1 /\ scene.after.count = 2
    /\ scene.before.cols = <<"flat">> /\ scene.after.cols = <<"red">>
    /\ det[1].raw_mask = {} /\ det[1].changes = <<>>

-----------------------------------------------------------------------------
(* Claims about the analysis jobs and the endpoints around them *)

AnalysisStatus == IF analysis = <<>> THEN "absent" ELSE analysis.status

GeeStatus == IF gee = <<>> THEN "absent" ELSE gee.status

\* C22: in process_analysis_task and process_gee_analysis the states failed
\* and completed are terminal: an analysis whose status is failed never
\* returns to processing or completed, and a completed analysis never
\* changes again.
C22_FailedAndCompletedTerminal ==
    [][ /\ AnalysisStatus = "failed" => AnalysisStatus' = "failed"
        /\ AnalysisStatus = "completed" => analysis' = analysis
        /\ GeeStatus = "failed" => GeeStatus' = "failed"
        /\ GeeStatus = "completed" => gee' = gee ]_vars

\* a retry has put an analysis that had failed back to processing: its row
\* still carries the message of the failed attempt
C22_ProcessingAfterFailed ==
    /\ mode = "api"
    /\ AnalysisStatus = "processing"
    /\ task.at = "running" /\ task.retries = 1 /\ task.runs = 2
    /\ analysis.error_message = Some("download failed")

\* C30: an analysis whose status is completed has no error_message, and an
\* error_message is present only on analyses whose status is failed, also
\* when the run that completes the analysis is a retry after a failed attempt.
C30_MessageOnlyWhenFailed ==
    /\ AnalysisStatus \in {"pending", "processing", "completed"}
          => IsNone(analysis.error_message)
    /\ GeeStatus \in {"pending", "processing", "completed"}
          => IsNone(gee.error_message)

\* GET /analysis/1 answers completed together with the message of the failed
\* first attempt
C30_CompletedWithMessage ==
    /\ mode = "api"
    /\ AnalysisStatus = "completed"
    /\ task.at = "done" /\ task.retries = 1
    /\ response # <<>>
    /\ response[1].endpoint = "status" /\ response[1].code = 200
    /\ Val(response[1].body).status = "completed"
    /\ Val(response[1].body).message = Some("download failed")

Ended(t) == t.at \in {"done", "given_up", "crashed", "finished"}

\* C23: every analysis job terminates: the task body runs at most
\* max_retries + 1 = 4 times per analysis, and once the last attempt is over
\* the status of the analysis is completed or failed, never processing.
C23_JobsEndCompletedOrFailed ==
    /\ mode \in {"job", "api"} =>
          /\ task.runs <= max_retries + 1
          /\ Ended(task) => AnalysisStatus \in {"completed", "failed"}
    /\ (mode = "gee" /\ geeTask.at \in {"queued", "running", "done", "given_up"}) =>
          /\ geeTask.runs <= max_retries + 1
          /\ Ended(geeTask) => GeeStatus \in {"completed", "failed"}

\* the fourth run of process_gee_analysis lost a commit and the commit of its
\* except branch: no retry is left and the row says processing
C23_LeftAtProcessing ==
    /\ mode = "gee"
    /\ geeTask.at = "given_up" /\ geeTask.runs = 4 /\ geeTask.faults = 1
    /\ GeeStatus = "processing"

\* process_analysis_task lost a commit and the commit of its except branch,
\* which left the task before self.retry: the row says processing
C23_CrashedAtProcessing ==
    /\ mode = "api"
    /\ task.at = "crashed" /\ task.runs = 1
    /\ AnalysisStatus = "processing"

\* C24: an analysis created while the enqueue of its task raises is still
\* processed: it eventually leaves pending and reaches completed or failed.
C24_ProcessedWithoutQueue ==
    /\ (mode = "api" /\ AnalysisStatus = "pending" /\ task.at = "absent")
          ~> (AnalysisStatus \in {"completed", "failed"})
    /\ (mode = "gee" /\ GeeStatus = "pending" /\ geeTask.at = "background")
          ~> (GeeStatus \in {"completed", "failed"})

\* the half of C24 about POST /analysis/compare alone
C24_CompareProcessedWithoutQueue ==
    (mode = "api" /\ AnalysisStatus = "pending" /\ task.at = "absent")
       ~> (AnalysisStatus \in {"completed", "failed"})

\* POST /analysis/compare stored the row, the enqueue raised, and the status
\* endpoint answers pending: no task exists that would ever run
C24_PendingWithoutTask ==
    /\ mode = "api"
    /\ AnalysisStatus = "pending" /\ task.at = "absent" /\ task.runs = 0
    /\ response # <<>>
    /\ response[1].endpoint = "status"
    /\ Val(response[1].body).status = "pending"

\* the requests of POST /satellite/analyze that were answered with a result
Stored == {i \in DOMAIN response : response[i].code = 200}

\* C26: every successful POST /satellite/analyze stores its result in
\* analyses_db under an id distinct from the id of every other stored
\* analysis, so that no analysis overwrites the stored result of another.
C26_DistinctIds ==
    mode = "satellite" =>
       /\ \A i \in Stored, j \in Stored : i # j => response[i].id # response[j].id
       /\ \A i \in Stored : /\ Val(response[i].id) \in DOMAIN analyses_db
                            /\ analyses_db[Val(response[i].id)] = Val(response[i].body)

\* two analyses served IdModulus milliseconds apart got the same id, and the
\* result of the first, which had found a change, is gone from analyses_db
C26_Overwritten ==
    /\ mode = "satellite"
    /\ clock = IdModulus
    /\ Len(response) = 2 /\ Stored = {1, 2}
    /\ response[1].id = Some(0) /\ response[2].id = Some(0)
    /\ Val(response[1].body).total_changes = 1
    /\ Val(response[2].body).total_changes = 0
    /\ DOMAIN analyses_db = {0}
    /\ analyses_db[0] = Val(response[2].body)

\* the row that the request answered by r asked for
RowOf(r) == IF mode = "api" THEN QueryAnalysis(r.id) ELSE QueryGee(r.id)

\* HTTP 404 without a row, HTTP 400 for a row that is not completed, and the
\* payload for a completed row only
Gated(r) ==
    LET row == RowOf(r)
    IN  /\ r.code = 404 <=> IsNone(row)
        /\ r.code = 400 <=> (~IsNone(row) /\ Val(row).status \in {"pending", "processing", "failed"})
        /\ r.code = 200 <=> (~IsNone(row) /\ Val(row).status = "completed")
        /\ r.code = 200 <=> ~IsNone(r.body)

\* the payload of the pixel analysis is what the latest run, the one that set
\* completed, made of its call of detect_changes
ResultOfCompletingRun(r) ==
    (r.code = 200 /\ r.endpoint \in {"result", "changes"}) =>
       /\ det # <<>> /\ IsNone(det[1].error)
       /\ r.endpoint = "result" =>
             /\ Val(r.body).results_geojson = Some(Features(det[1].changes))
             /\ Val(r.body).total_changes = Len(det[1].changes)
       /\ r.endpoint = "changes" => Val(r.body).features = Features(det[1].changes)

\* the tile URLs served were made by one of the runs in the set, or are unset
TilesOfRuns(r, runs) ==
    (r.code = 200 /\ r.endpoint = "tiles") =>
       /\ Val(r.body).tile_url_before \in {None} \cup {Some(k) : k \in runs}
       /\ Val(r.body).tile_url_after \in {None} \cup {Some(k) : k \in runs}

\* a request to one of the three result endpoints is answered
Answered ==
    /\ mode \in {"api", "gee"}
    /\ response' # response
    /\ response'[1].endpoint # "status"

C25_WitnessEarlierTiles ==
    /\ mode = "gee"
    /\ GeeStatus = "completed" /\ geeTask.runs = 2 /\ "tiles" \in geeTask.raised
    /\ response # <<>>
    /\ response[1].endpoint = "tiles" /\ response[1].code = 200
    /\ Val(response[1].body).tile_url_before = Some(1)

\* the run of process_gee_analysis that has just set completed
Completing == mode = "gee" /\ geeTask.at = "done"

\* what holds of the optional steps whatever the claim says of images_found
\* and the tile URLs: progress 100, an empty time series and no AI analysis
\* for the steps that raised, and no failed status without a failure of
\* compare_periods or of a commit
OptionalStepsDoNotFail ==
    /\ Completing =>
          /\ GeeStatus = "completed" /\ gee.progress = 100
          /\ "series" \in geeTask.raised => gee.time_series = Some(<<>>)
          /\ "ai" \in geeTask.raised => IsNone(gee.ai_analysis)
    /\ (mode = "gee" /\ geeTask.at = "running") => GeeStatus = "processing"
    /\ (mode = "gee" /\ geeTask.at \in {"queued", "running", "given_up"} /\ GeeStatus = "failed")
          => gee.error_message \in {Some("compare_periods failed"), Some("database error")}

\* C27 as stated: a failure of the image count, the time series, the tiles or
\* the AI analysis does not fail the job, which reaches completed with
\* progress 100 and the field defaulted: images_found 0, time_series empty,
\* tile URLs unset, ai_analysis None; only compare_periods or a commit fails it.
C27_Original_FieldsDefaulted ==
    /\ OptionalStepsDoNotFail
    /\ Completing =>
          /\ "count" \in geeTask.raised => gee.images_found = 0
          /\ "tiles" \in geeTask.raised =>
                IsNone(gee.tile_url_before) /\ IsNone(gee.tile_url_after)

\* C27, amended: as stated for the time series and the AI analysis; when the
\* image count raised, images_found is the number compare_periods reports, and
\* 0 only when that number is 0; when the tiles raised, the tile URLs keep the
\* value they had, unset or written by an earlier run.
C27_OptionalStepsTolerated ==
    /\ OptionalStepsDoNotFail
    /\ Completing =>
          /\ "count" \in geeTask.raised =>
                gee.images_found = Val(geeTask.comparison).images_found
          /\ "tiles" \in geeTask.raised =>
                /\ gee.tile_url_before \in {None} \cup {Some(k) : k \in 1..(geeTask.runs - 1)}
                /\ gee.tile_url_after = gee.tile_url_before

\* all four optional steps raised in the first run, which completed; the
\* comparison found three images
C27_Witness ==
    /\ Completing
    /\ geeTask.runs = 1 /\ geeTask.raised = {"count", "series", "tiles", "ai"}
    /\ GeeStatus = "completed" /\ gee.progress = 100
    /\ gee.images_found = 3
    /\ gee.time_series = Some(<<>>)
    /\ IsNone(gee.tile_url_before) /\ IsNone(gee.ai_analysis)
    /\ IsNone(gee.error_message)

\* the tiles raised in the second run, which completed with the tile URLs
\* that the first run had stored before it lost a commit
C27_WitnessEarlierTiles ==
    /\ Completing
    /\ geeTask.runs = 2 /\ "tiles" \in geeTask.raised
    /\ gee.tile_url_before = Some(1) /\ gee.tile_url_after = Some(1)

====
